---- MODULE Spec2Model ----
(***************************************************************************)
(* Dispatch-and-job-lifecycle engine of the orchestration gateway          *)
(* (backend/app/routers/orchestrate.py, backend/app/core/orchestrator.py). *)
(*                                                                         *)
(* The process is a single asyncio event loop: the code between two awaits *)
(* of a handler runs atomically, and handlers interleave at their awaits.  *)
(* One action below is one such atomic piece.  The Dispatch handler is     *)
(* modelled from line 206 of orchestrate.py on (job id generation); the    *)
(* authentication preamble (lines 200-204) is not part of these actions.   *)
(***************************************************************************)
EXTENDS Integers, Sequences, FiniteSets, TLC

(***************************************************************************)
(* Bounds of the model.                                                    *)
(***************************************************************************)
MaxRequests == 2      \* Dispatch and IngestCallback requests in a behaviour
MaxJobIds == 2        \* size of the space uuid4().hex[:8] draws job ids from

(***************************************************************************)
(* Program constants.                                                      *)
(***************************************************************************)
SyncTimeout == 8      \* asyncio.wait_for(..., timeout=8.0)

NoneVal == "None"     \* Python None, also the value of dict.get on a missing key

Reqs == 1..MaxRequests
JobIds == 1..MaxJobIds

(***************************************************************************)
(* Intents are dotted names, modelled as the sequence of their segments:   *)
(* "ssh.exec.peek" is <<"ssh", "exec", "peek">>.                           *)
(***************************************************************************)
EndsWith(intent, suffix) ==
    Len(intent) >= 2 /\ intent[Len(intent)] = suffix

StartsWith(intent, prefix) ==
    Len(intent) >= 2 /\ intent[1] = prefix

TOOL_REGISTRY ==
    { <<"memory", "write">>, <<"memory", "store">>, <<"memory", "search">>,
      <<"memory", "query">>, <<"memory", "list">>,
      <<"gmail", "triage">>, <<"gmail", "search">>, <<"gmail", "recent">>,
      <<"fs", "list">>, <<"fs", "read">>, <<"fs", "head">>,
      <<"ssh", "exec">>, <<"ssh", "exec", "peek">>, <<"ssh", "run">> }

get_tool(intent) == IF intent \in TOOL_REGISTRY THEN intent ELSE NoneVal

\* The callable TOOL_REGISTRY holds for a registered intent: several intent
\* names can share one callable.
registered_callable(intent) ==
    IF intent \in {<<"memory", "write">>, <<"memory", "store">>}
    THEN "memory.store_memory"
    ELSE IF intent \in {<<"memory", "search">>, <<"memory", "query">>}
    THEN "memory.search_memory"
    ELSE IF intent = <<"memory", "list">> THEN "memory.list_memories"
    ELSE IF intent = <<"gmail", "triage">> THEN "gmail.triage_gmail"
    ELSE IF intent = <<"gmail", "search">> THEN "gmail.search_gmail"
    ELSE IF intent = <<"gmail", "recent">> THEN "gmail.get_recent_gmail"
    ELSE IF intent = <<"fs", "list">> THEN "fs.list_directory"
    ELSE IF intent = <<"fs", "read">> THEN "fs.read_file"
    ELSE IF intent = <<"fs", "head">> THEN "fs.head_file"
    ELSE IF intent \in {<<"ssh", "exec">>, <<"ssh", "run">>}
    THEN "ssh.ssh_exec"
    ELSE IF intent = <<"ssh", "exec", "peek">> THEN "ssh.ssh_exec_peek"
    ELSE NoneVal

Modes == {"flow", "mcp", "agent", "auto"}

\* The requests the model issues: one (intent, mode) per way a request can
\* run -- fast path on a registered tool, fast path on an unregistered
\* intent, background path on the flow engine, background path on the
\* protocol stub -- each with and without callback URL and supplied key.
Targets ==
    { [intent |-> <<"fs", "read">>, mode |-> "auto"],
      [intent |-> <<"no", "such", "tool">>, mode |-> "agent"],
      [intent |-> <<"gmail", "triage">>, mode |-> "auto"],
      [intent |-> <<"gmail", "triage">>, mode |-> "mcp"] }

\* Requests for local tools with the mode left to the resolver: a registered
\* memory tool, an unregistered intent of the memory namespace, and a
\* read-only intent.
LocalTargets ==
    { [intent |-> <<"memory", "search">>, mode |-> "auto"],
      [intent |-> <<"memory", "nosuch">>, mode |-> "auto"],
      [intent |-> <<"fs", "read">>, mode |-> "auto"] }

(***************************************************************************)
(* Python values.  A dict (a JSON object) is the sequence of its entries   *)
(* [k, v] in insertion order, without duplicate keys.  A scalar is written *)
(* as a string: "None", "True", "False", "0", "1" stand for the Python     *)
(* values of these names, "" for the empty string, any other string for    *)
(* itself.                                                                 *)
(***************************************************************************)
DictKeys(d) == { d[i].k : i \in 1..Len(d) }

\* d.get(key)
DictGet(d, key) ==
    IF key \in DictKeys(d)
    THEN d[CHOOSE i \in 1..Len(d) : d[i].k = key].v
    ELSE NoneVal

\* bool(v) of a scalar
TruthyValue(v) == v \notin {NoneVal, "False", "0", ""}

InputsSet == { << [k |-> "q", v |-> "x"] >> }
CallbackUrls == {NoneVal, "http://cb"}
SuppliedKeys == {NoneVal, "", "k1"}

Requests ==
    { [intent |-> t.intent, inputs |-> i, mode |-> t.mode,
       callback_url |-> c, idempotency_key |-> k] :
         t \in Targets \cup LocalTargets, i \in InputsSet,
         c \in CallbackUrls,
         k \in SuppliedKeys }

(***************************************************************************)
(* Mode Resolver and executors (core/orchestrator.py).                     *)
(***************************************************************************)
\* The resolver as it would be if the namespace rules came first.
auto_select_mode_namespace_first(intent) ==
    IF StartsWith(intent, "memory") THEN "agent"
    ELSE IF StartsWith(intent, "gmail") \/ StartsWith(intent, "digest")
            \/ StartsWith(intent, "workflow") THEN "flow"
    ELSE IF StartsWith(intent, "fs") THEN "flow"
    ELSE IF StartsWith(intent, "ssh") THEN "agent"
    ELSE IF EndsWith(intent, "peek") \/ EndsWith(intent, "read") THEN "agent"
    ELSE "flow"

auto_select_mode(intent) ==
    IF EndsWith(intent, "peek") \/ EndsWith(intent, "read") THEN "agent"
    ELSE IF StartsWith(intent, "memory") THEN "agent"
    ELSE IF StartsWith(intent, "gmail") \/ StartsWith(intent, "digest")
            \/ StartsWith(intent, "workflow") THEN "flow"
    ELSE IF StartsWith(intent, "fs") THEN "flow"
    ELSE IF StartsWith(intent, "ssh") THEN "agent"
    ELSE "flow"

SelectedMode(mode, intent) ==
    IF mode = "auto" THEN auto_select_mode(intent) ELSE mode

Ok(v) == [kind |-> "ok", val |-> v]
Raise(cls, msg) == [kind |-> cls, val |-> msg]

\* Every way run_flow can end: a JSON result, or an OrchestratorError.
run_flow(intent, inputs) ==
    { Ok("flow_json"),
      Raise("OrchestratorError", "Flow execution timed out"),
      Raise("OrchestratorError", "Flow returned error"),
      Raise("OrchestratorError", "Flow execution failed") }

\* run_agent as it would be if an unknown intent raised the base error.
run_agent_generic_error(intent, inputs) ==
    IF get_tool(intent) = NoneVal
    THEN { Raise("OrchestratorError", "Intent not found. Available") }
    ELSE { Ok("tool_result"),
           Raise("OrchestratorError", "Agent execution failed") }

\* The safety check of run_agent as it would be if it never blocked.
confirm_required_never(intent, inputs) == FALSE

\* if intent == "ssh.exec" and not inputs.get("confirm_dangerous")
confirm_required(intent, inputs) ==
    /\ intent = <<"ssh", "exec">>
    /\ ~TruthyValue(DictGet(inputs, "confirm_dangerous"))

\* Every way a run of run_agent can go: the calls "await tool(**inputs)" it
\* makes, what it returns or raises, and, for the "not executed" result,
\* the would_execute field of the returned dict (<<>> otherwise).
run_agent_runs(intent, inputs) ==
    IF get_tool(intent) = NoneVal
    THEN { [outcome |-> Raise("IntentNotFoundError",
                              "Intent not found. Available"),
            tool_calls |-> <<>>, would_execute |-> <<>>] }
    ELSE IF confirm_required(intent, inputs)
    THEN { [outcome |-> Ok("dry_run"),
            tool_calls |-> <<>>, would_execute |-> inputs] }
    ELSE { [outcome |-> o,
            tool_calls |-> << [tool |-> get_tool(intent),
                               kwargs |-> inputs] >>,
            would_execute |-> <<>>] :
              o \in { Ok("tool_result"),
                      Raise("OrchestratorError", "Agent execution failed") } }

\* Every way run_agent can end.
run_agent(intent, inputs) ==
    { run.outcome : run \in run_agent_runs(intent, inputs) }

run_mcp(intent, inputs) == { Ok("mcp_stub") }

\* dispatch(mode, intent, inputs, trace): the set of its possible outcomes.
dispatch(mode, intent, inputs) ==
    LET selected_mode == SelectedMode(mode, intent)
    IN  IF selected_mode = "flow" THEN run_flow(intent, inputs)
        ELSE IF selected_mode = "mcp" THEN run_mcp(intent, inputs)
        ELSE IF selected_mode = "agent" THEN run_agent(intent, inputs)
        ELSE { Raise("OrchestratorError", "Unknown mode") }

\* The executor dispatch() calls for a selected mode, and what it can end in.
ExecutorOf(selected_mode) ==
    IF selected_mode = "flow" THEN "run_flow"
    ELSE IF selected_mode = "mcp" THEN "run_mcp"
    ELSE IF selected_mode = "agent" THEN "run_agent"
    ELSE NoneVal

ExecutorOutcomes(executor, intent, inputs) ==
    IF executor = "run_flow" THEN run_flow(intent, inputs)
    ELSE IF executor = "run_mcp" THEN run_mcp(intent, inputs)
    ELSE IF executor = "run_agent" THEN run_agent(intent, inputs)
    ELSE { Raise("OrchestratorError", "Unknown mode") }

\* dispatch() as it would be if it asked the resolver whatever the mode.
dispatch_runs_resolves_always(mode, intent, inputs) ==
    LET selected_mode == auto_select_mode(intent)
        executor == ExecutorOf(selected_mode)
    IN  { [resolver_calls |-> << intent >>,
           selected_mode |-> selected_mode,
           executor_calls |-> IF executor = NoneVal THEN << >>
                              ELSE << executor >>,
           outcome |-> o] :
             o \in ExecutorOutcomes(executor, intent, inputs) }

\* Every way a call of dispatch() can go: the calls of auto_select_mode it
\* makes (line 311, under "if mode == Mode.auto"), the mode it selects, the
\* executors it calls (lines 320-327) and what it returns or raises.
dispatch_runs(mode, intent, inputs) ==
    LET resolver_calls == IF mode = "auto" THEN << intent >> ELSE << >>
        selected_mode == IF mode = "auto" THEN auto_select_mode(intent)
                         ELSE mode
        executor == ExecutorOf(selected_mode)
    IN  { [resolver_calls |-> resolver_calls,
           selected_mode |-> selected_mode,
           executor_calls |-> IF executor = NoneVal THEN << >>
                              ELSE << executor >>,
           outcome |-> o] :
             o \in ExecutorOutcomes(executor, intent, inputs) }

\* An executor call suspends (and so can outlast the timeout) only where it
\* awaits: the outbound HTTP call of run_flow and the tool call of run_agent.
Suspends(mode, intent, inputs) ==
    LET selected_mode == SelectedMode(mode, intent)
    IN  \/ selected_mode = "flow"
        \/ /\ selected_mode = "agent"
           /\ get_tool(intent) # NoneVal
           /\ ~confirm_required(intent, inputs)

\* Durations (in the timeout's time unit) an executor call may take.
Durations(mode, intent, inputs) ==
    IF Suspends(mode, intent, inputs) THEN {1, SyncTimeout + 1} ELSE {0}


(***************************************************************************)
(* Idempotency keys.  A key is a pair of a caller-supplied text and the    *)
(* preimage of a sha256 digest: generate_idempotency_key serialises        *)
(* {"intent", "inputs"} with sorted keys and hashes the text, and the      *)
(* digest is modelled by the text it is a digest of (sha256 is taken to be *)
(* collision-free).                                                        *)
(***************************************************************************)
NoKey == [text |-> NoneVal, sha256 |-> <<>>]

\* The dict keys of the model, in the order Python sorts strings.
KeyOrder == << "a", "b", "command", "confirm_dangerous", "q" >>

KeyRank(key) == CHOOSE i \in 1..Len(KeyOrder) : KeyOrder[i] = key

\* The entries of d in the order of their keys.
SortedEntries(d) ==
    [ i \in 1..Len(d) |->
        d[CHOOSE j \in 1..Len(d) :
            Cardinality({ m \in 1..Len(d) :
                            KeyRank(d[m].k) < KeyRank(d[j].k) }) = i - 1] ]

\* json.dumps({"intent": intent, "inputs": inputs}, sort_keys=...): the text
\* as the sequence of its members, each dict in the order it is written in.
json_dumps(intent, inputs, sort_keys) ==
    IF sort_keys
    THEN << "inputs", SortedEntries(inputs), "intent", intent >>
    ELSE << "intent", intent, "inputs", inputs >>

\* The key as it would be if the text were written in insertion order.
generate_idempotency_key_unsorted(intent, inputs) ==
    [text |-> NoneVal, sha256 |-> json_dumps(intent, inputs, FALSE)]

generate_idempotency_key(intent, inputs) ==
    [text |-> NoneVal, sha256 |-> json_dumps(intent, inputs, TRUE)]

Truthy(s) == s # NoneVal /\ s # ""

\* idem_key = req.idempotency_key or generate_idempotency_key(...)
IdemKeyOf(r) ==
    IF Truthy(r.idempotency_key)
    THEN [text |-> r.idempotency_key, sha256 |-> <<>>]
    ELSE generate_idempotency_key(r.intent, r.inputs)

is_fast_intent(r) ==
    \/ EndsWith(r.intent, "peek")
    \/ EndsWith(r.intent, "read")
    \/ r.mode = "agent"

(***************************************************************************)
(* The job store: a Python dict, i.e. a map that iterates in insertion     *)
(* order.  It is a sequence of entries [job_id, data] without duplicate    *)
(* job_id; assigning to a present id replaces the data in place.           *)
(***************************************************************************)
NoJob == 0
NoIntent == <<>>

StoreIds(store) == { store[i].job_id : i \in 1..Len(store) }

StoreIndex(store, id) == CHOOSE i \in 1..Len(store) : store[i].job_id = id

StoreGet(store, id) == store[StoreIndex(store, id)].data

StorePut(store, id, data) ==
    IF id \in StoreIds(store)
    THEN [store EXCEPT ![StoreIndex(store, id)].data = data]
    ELSE Append(store, [job_id |-> id, data |-> data])

\* The records the code writes.
QueuedRecord(intent, key) ==
    [intent |-> intent, status |-> "queued", result |-> NoneVal,
     error |-> NoneVal, idempotency_key |-> key]

\* The fast-path record as it would be if it were stored as queued.
SyncRecord_queued(intent, result, key) == QueuedRecord(intent, key)

\* job_data of the fast path (orchestrate, lines 253-259)
SyncRecord(intent, result, key) ==
    [intent |-> intent, status |-> "succeeded", result |-> result,
     error |-> NoneVal, idempotency_key |-> key]

\* JobCallbackPayload(...).dict(): the payload has no idempotency_key field.
PayloadRecord(intent, status, result, error) ==
    [intent |-> intent, status |-> status, result |-> result,
     error |-> error, idempotency_key |-> NoKey]

\* The worker has built no payload.
NoPayload == PayloadRecord(NoIntent, NoneVal, NoneVal, NoneVal)

\* The scan "for stored_job_id, stored_data in _job_store.items()": the index
\* of the first entry whose idempotency_key equals idem_key, 0 if none.
LookupIndex(store, key) ==
    LET hits == { i \in 1..Len(store) : store[i].data.idempotency_key = key }
    IN  IF hits = {} THEN 0
        ELSE CHOOSE i \in hits : \A k \in hits : i <= k

(***************************************************************************)
(* Responses.                                                              *)
(***************************************************************************)
NoResp ==
    [http |-> 0, job_id |-> NoJob, status |-> NoneVal, result |-> NoneVal,
     error |-> NoneVal, will_callback |-> FALSE, idempotency_key |-> NoKey]

OrchestrateResponse(id, status, result, error, will_callback, key) ==
    [http |-> 200, job_id |-> id, status |-> status, result |-> result,
     error |-> error, will_callback |-> will_callback, idempotency_key |-> key]

HTTPException(code, detail) ==
    [http |-> code, job_id |-> NoJob, status |-> NoneVal, result |-> NoneVal,
     error |-> detail, will_callback |-> FALSE, idempotency_key |-> NoKey]

NoReq ==
    [intent |-> NoIntent, inputs |-> <<>>,
     mode |-> NoneVal, callback_url |-> NoneVal, idempotency_key |-> NoneVal]

NoReply == [op |-> NoneVal, http |-> 0, job_id |-> NoJob, status |-> NoneVal,
            result |-> NoneVal, error |-> NoneVal]

VARIABLES
    jobStore,    \* _job_store
    pc,          \* where each Dispatch request is
    req,         \* the OrchestrateRequest of each request
    job_id,      \* the job id the handler generated
    idem_key,    \* the handler's idem_key
    resp,        \* the response the handler returned
    tasks,       \* requests for which background_tasks.add_task was called
    starts,      \* how often dispatch() was called for the request
    callbacks,   \* how often the callback POST was attempted for the request
    outcomes,    \* what each dispatch() call made for the request ended in
    worker_payload,  \* execute_with_callback's payload: stored, then posted
    overlap,     \* requests that were awaiting when this one was admitted
    reply,       \* what the step just taken returned to the outside: the
                 \* GetJob / IngestCallback response, the callback's outcome
    ingests,     \* number of IngestCallback requests so far
    uuid_fresh,  \* whether the run's uuid4 draws never hit an id in use
    client_keys, \* the idempotency_key values the run's clients send
    client_targets,  \* the (intent, mode) pairs the run's clients send
    call,        \* the last direct call of a function: arguments and outcome
    rate_env,    \* RATE_LIMIT_ENABLED, and the limit and window_seconds the
                 \* run's check_rate_limit calls pass
    rate_limit_store,  \* _rate_limit_store
    now,         \* int(time.time())
    checks,      \* the check_rate_limit calls made so far and their results
    redis_keys,  \* the Redis server's rate_limit:{key}:count and :reset
    redis_calls  \* the _check_rate_limit_redis calls in progress

vars == << jobStore, pc, req, job_id, idem_key, resp, tasks, starts,
           callbacks, outcomes, worker_payload, overlap, reply, ingests,
           uuid_fresh, client_keys, client_targets, call, rate_env,
           rate_limit_store, now, checks, redis_keys, redis_calls >>

\* The state of the router, and the state outside it.
RouterVars == << jobStore, pc, req, job_id, idem_key, resp, tasks, starts,
                 callbacks, outcomes, worker_payload, overlap, reply, ingests,
                 uuid_fresh,
                 client_keys, client_targets >>
RedisVars == << redis_keys, redis_calls >>
LimiterVars == << rate_env, rate_limit_store, now, checks, RedisVars >>
OutsideRouter == << call, LimiterVars >>

\* The rate limiter (core/rate_limit.py).
MaxLimit == 2         \* largest limit passed to check_rate_limit
MaxWindow == 2        \* largest window_seconds passed to check_rate_limit
MaxNow == 4           \* the clock runs from 1 to MaxNow
MaxChecks == 4        \* check_rate_limit calls in a behaviour

RateKeys == {"token_a", "token_b"}

RateEnvs ==
    [RATE_LIMIT_ENABLED : BOOLEAN, limit : 0..MaxLimit,
     window_seconds : 1..MaxWindow]

\* defaultdict(lambda: {"count": 0, "reset_time": 0})
NewBucket == [count |-> 0, reset_time |-> 0]

\* Concurrent callers of check_rate_limit.
MaxCallers == 2
Callers == 1..MaxCallers

\* A key's two values on the server and the time their ex= lifetime ends;
\* from that time on a GET of either returns None.
NoRedisKey == [count |-> 0, reset |-> 0, expires |-> 0]

\* A caller that is not inside _check_rate_limit_redis.
IdleCall == [at |-> "idle", key |-> NoneVal, t |-> 0, count |-> 0,
             reset_time |-> 0]

NoCall == [fn |-> NoneVal]

InitProgram ==
    /\ jobStore = <<>>
    /\ pc = [r \in Reqs |-> "idle"]
    /\ req = [r \in Reqs |-> NoReq]
    /\ job_id = [r \in Reqs |-> NoJob]
    /\ idem_key = [r \in Reqs |-> NoKey]
    /\ resp = [r \in Reqs |-> NoResp]
    /\ tasks = {}
    /\ starts = [r \in Reqs |-> 0]
    /\ callbacks = [r \in Reqs |-> 0]
    /\ outcomes = [r \in Reqs |-> <<>>]
    /\ worker_payload = [r \in Reqs |-> NoPayload]
    /\ overlap = [r \in Reqs |-> {}]
    /\ reply = NoReply
    /\ ingests = 0
    /\ call = NoCall
    /\ rate_limit_store = [key \in RateKeys |-> NewBucket]
    /\ now = 1
    /\ checks = <<>>
    /\ redis_keys = [key \in RateKeys |-> NoRedisKey]
    /\ redis_calls = [p \in Callers |-> IdleCall]

\* RATE_LIMIT_ENABLED as it is when the environment does not set it.
LimiterOff ==
    rate_env = [RATE_LIMIT_ENABLED |-> FALSE, limit |-> MaxLimit,
                window_seconds |-> MaxWindow]

\* Runs in which no generated job id repeats one in use.
Init ==
    /\ InitProgram
    /\ uuid_fresh = TRUE
    /\ client_keys = {NoneVal, "k1"}
    /\ client_targets = Targets
    /\ LimiterOff

\* All runs: job ids may also collide.
InitAnyUuid ==
    /\ InitProgram
    /\ uuid_fresh \in BOOLEAN
    /\ client_keys = {NoneVal, "k1"}
    /\ client_targets = Targets
    /\ LimiterOff

\* Runs in which clients send the empty string as their key.
InitEmptyKey ==
    /\ InitProgram
    /\ uuid_fresh = TRUE
    /\ client_keys = {NoneVal, ""}
    /\ client_targets = Targets
    /\ LimiterOff

\* Runs in which clients ask for local tools and leave the mode to the
\* resolver.
InitLocal ==
    /\ InitProgram
    /\ uuid_fresh = TRUE
    /\ client_keys = {NoneVal, "k1"}
    /\ client_targets = LocalTargets
    /\ LimiterOff

\* The limiter in every configuration.
InitRateLimit ==
    /\ InitProgram
    /\ uuid_fresh = TRUE
    /\ client_keys = {NoneVal, "k1"}
    /\ client_targets = Targets
    /\ rate_env \in RateEnvs

\* Job ids in use: in the store, or generated by a handler or task that has
\* not finished.
UsedIds ==
    StoreIds(jobStore)
        \cup { job_id[q] : q \in { x \in Reqs : pc[x] \notin {"idle", "responded", "finished"} } }

\* uuid4().hex[:8] is a random 32-bit value, and the handler does not look
\* whether it is in use: it may be any id, one in use included.  In a run
\* where the draws happen not to repeat (uuid_fresh) it is an id not in use.
\* Ids not in use are interchangeable, so the least stands for all of them.
UuidChoices ==
    LET free == JobIds \ UsedIds
        fresh == IF free = {} THEN {}
                 ELSE { CHOOSE i \in free : \A k \in free : i <= k }
    IN  IF uuid_fresh THEN fresh ELSE UsedIds \cup fresh

\* The Dispatch requests that have arrived.
Arrived == { q \in Reqs : pc[q] # "idle" }

\* Another Dispatch or IngestCallback request may arrive.
MoreRequests == Cardinality(Arrived) + ingests < MaxRequests

\* Dispatch requests arrive in the order of their numbers.
CanArrive(r) ==
    /\ MoreRequests
    /\ pc[r] = "idle"
    /\ IF r = 1 THEN TRUE ELSE pc[r - 1] # "idle"

Awaiting == { q \in Reqs : pc[q] = "sync_wait" }

\* Lines 206-213: job id, idempotency key.
Admit(r, rq, id) ==
    /\ CanArrive(r)
    /\ rq.idempotency_key \in client_keys
    /\ [intent |-> rq.intent, mode |-> rq.mode] \in client_targets
    /\ req' = [req EXCEPT ![r] = rq]
    /\ job_id' = [job_id EXCEPT ![r] = id]
    /\ idem_key' = [idem_key EXCEPT ![r] = IdemKeyOf(rq)]
    /\ overlap' = [overlap EXCEPT ![r] = Awaiting]
    /\ reply' = NoReply
    /\ UNCHANGED << ingests, outcomes, worker_payload, uuid_fresh, client_keys,
                    client_targets, OutsideRouter >>

\* The background path as it would be if it stored the queued record and
\* answered without adding the task.
ScheduleBackground_without_task(r, rq, id, key) ==
    /\ tasks' = tasks
    /\ jobStore' = StorePut(jobStore, id, QueuedRecord(rq.intent, key))
    /\ resp' = [resp EXCEPT ![r] =
                  OrchestrateResponse(id, "queued", NoneVal, NoneVal,
                                      Truthy(rq.callback_url), key)]
    /\ pc' = [pc EXCEPT ![r] = "bg_pending"]

\* Lines 286-310: schedule the background task, store the queued record,
\* answer "queued".
ScheduleBackground(r, rq, id, key) ==
    /\ tasks' = tasks \cup {r}
    /\ jobStore' = StorePut(jobStore, id, QueuedRecord(rq.intent, key))
    /\ resp' = [resp EXCEPT ![r] =
                  OrchestrateResponse(id, "queued", NoneVal, NoneVal,
                                      Truthy(rq.callback_url), key)]
    /\ pc' = [pc EXCEPT ![r] = "bg_pending"]

\* The cached response as it would be if it carried the status alone.
CachedResponse_status_only(stored_job_id, stored_data, key) ==
    OrchestrateResponse(stored_job_id, stored_data.status, NoneVal, NoneVal,
                        FALSE, key)

\* The response built from the matching entry (lines 222-228).
CachedResponse(stored_job_id, stored_data, key) ==
    OrchestrateResponse(stored_job_id, stored_data.status,
                        stored_data.result, stored_data.error, FALSE, key)

\* Dispatch, idempotency hit (lines 215-228).
DispatchHit(r) ==
    \E rq \in Requests, id \in UuidChoices :
        LET key == IdemKeyOf(rq)
            i == LookupIndex(jobStore, key)
        IN  /\ Admit(r, rq, id)
            /\ i # 0
            /\ resp' = [resp EXCEPT ![r] =
                          CachedResponse(jobStore[i].job_id,
                                         jobStore[i].data, key)]
            /\ pc' = [pc EXCEPT ![r] = "responded"]
            /\ UNCHANGED << jobStore, tasks, starts, callbacks >>

\* Dispatch, miss, fast path: the handler calls dispatch() under wait_for
\* and suspends (lines 230-250).
DispatchFast(r) ==
    \E rq \in Requests, id \in UuidChoices :
        /\ Admit(r, rq, id)
        /\ LookupIndex(jobStore, IdemKeyOf(rq)) = 0
        /\ is_fast_intent(rq)
        /\ starts' = [starts EXCEPT ![r] = @ + 1]
        /\ pc' = [pc EXCEPT ![r] = "sync_wait"]
        /\ UNCHANGED << jobStore, resp, tasks, callbacks >>

\* Dispatch, miss, not fast: straight to the background path (lines 286-310).
DispatchBackground(r) ==
    \E rq \in Requests, id \in UuidChoices :
        /\ Admit(r, rq, id)
        /\ LookupIndex(jobStore, IdemKeyOf(rq)) = 0
        /\ ~is_fast_intent(rq)
        /\ ScheduleBackground(r, rq, id, IdemKeyOf(rq))
        /\ UNCHANGED << starts, callbacks >>

HandlerFrame ==
    << req, job_id, idem_key, overlap, ingests, uuid_fresh, client_keys,
       client_targets, OutsideRouter >>
WorkFrame == << HandlerFrame, outcomes, worker_payload >>

\* The awaited dispatch() returns within the timeout (lines 252-267).
FastReturn(r) ==
    /\ pc[r] = "sync_wait"
    /\ \E d \in Durations(req[r].mode, req[r].intent, req[r].inputs),
          o \in dispatch(req[r].mode, req[r].intent, req[r].inputs) :
        /\ d <= SyncTimeout
        /\ o.kind = "ok"
        /\ jobStore' = StorePut(jobStore, job_id[r],
                                SyncRecord(req[r].intent, o.val, idem_key[r]))
        /\ resp' = [resp EXCEPT ![r] =
                      OrchestrateResponse(job_id[r], "succeeded", o.val,
                                          NoneVal, FALSE, idem_key[r])]
    /\ outcomes' = [outcomes EXCEPT ![r] = Append(@, "ok")]
    /\ pc' = [pc EXCEPT ![r] = "responded"]
    /\ reply' = NoReply
    /\ UNCHANGED << HandlerFrame, tasks, starts, callbacks,
                    worker_payload >>

\* wait_for raises TimeoutError: fall through to the background path with
\* the same job id (lines 269-274, 286-310).
FastTimeout(r) ==
    /\ pc[r] = "sync_wait"
    /\ \E d \in Durations(req[r].mode, req[r].intent, req[r].inputs) :
        d > SyncTimeout
    /\ ScheduleBackground(r, req[r], job_id[r], idem_key[r])
    /\ outcomes' = [outcomes EXCEPT ![r] = Append(@, "timeout")]
    /\ reply' = NoReply
    /\ UNCHANGED << HandlerFrame, starts, callbacks, worker_payload >>

\* The handler as it would be if an executor failure on the fast path fell
\* back to the background path like a timeout.
FastError_falls_back(r) ==
    /\ pc[r] = "sync_wait"
    /\ \E d \in Durations(req[r].mode, req[r].intent, req[r].inputs),
          o \in dispatch(req[r].mode, req[r].intent, req[r].inputs) :
        /\ d <= SyncTimeout
        /\ o.kind # "ok"
        /\ outcomes' = [outcomes EXCEPT ![r] = Append(@, o.kind)]
    /\ ScheduleBackground(r, req[r], job_id[r], idem_key[r])
    /\ reply' = NoReply
    /\ UNCHANGED << HandlerFrame, starts, callbacks, worker_payload >>

\* The awaited dispatch() raises within the timeout (lines 275-284).
FastError(r) ==
    /\ pc[r] = "sync_wait"
    /\ \E d \in Durations(req[r].mode, req[r].intent, req[r].inputs),
          o \in dispatch(req[r].mode, req[r].intent, req[r].inputs) :
        /\ d <= SyncTimeout
        /\ o.kind # "ok"
        /\ outcomes' = [outcomes EXCEPT ![r] = Append(@, o.kind)]
        /\ resp' = [resp EXCEPT ![r] =
                      IF o.kind = "IntentNotFoundError"
                      THEN HTTPException(404, "Intent not found")
                      ELSE IF o.kind = "OrchestratorError"
                      THEN HTTPException(500, "Orchestration error")
                      ELSE HTTPException(500, "Execution failed")]
    /\ pc' = [pc EXCEPT ![r] = "responded"]
    /\ reply' = NoReply
    /\ UNCHANGED << HandlerFrame, jobStore, tasks, starts, callbacks,
                    worker_payload >>


(***************************************************************************)
(* The background worker: execute_with_callback.                           *)
(***************************************************************************)
\* The task starts after the response was sent and calls dispatch()
\* (lines 99-103).
WorkerStart(r) ==
    /\ r \in tasks
    /\ pc[r] = "bg_pending"
    /\ pc' = [pc EXCEPT ![r] = "bg_exec"]
    /\ starts' = [starts EXCEPT ![r] = @ + 1]
    /\ reply' = NoReply
    /\ UNCHANGED << WorkFrame, jobStore, resp, tasks, callbacks >>

\* The worker's payload as it would be if failures were not recorded.
WorkerPayload_drops_failure(intent, o) ==
    IF o.kind = "ok"
    THEN PayloadRecord(intent, "succeeded", o.val, NoneVal)
    ELSE PayloadRecord(intent, "queued", NoneVal, NoneVal)

\* The worker's payload as it would be if the not-found handler dropped the
\* exception's message.
WorkerPayload_not_found_silent(intent, o) ==
    IF o.kind = "ok"
    THEN PayloadRecord(intent, "succeeded", o.val, NoneVal)
    ELSE IF o.kind = "IntentNotFoundError"
    THEN PayloadRecord(intent, "failed", NoneVal, NoneVal)
    ELSE PayloadRecord(intent, "failed", NoneVal, o.val)

\* The worker's payload as it would be if every failure were recorded under
\* one fixed message.
WorkerPayload_fixed_message(intent, o) ==
    IF o.kind = "ok"
    THEN PayloadRecord(intent, "succeeded", o.val, NoneVal)
    ELSE IF o.kind = "IntentNotFoundError"
    THEN PayloadRecord(intent, "failed", NoneVal,
                       "Intent not found: " \o o.val)
    ELSE PayloadRecord(intent, "failed", NoneVal, "Execution failed")

\* The payload execute_with_callback builds from the executor's outcome
\* (lines 105-113, 124-132, 141-149).
WorkerPayload(intent, o) ==
    IF o.kind = "ok"
    THEN PayloadRecord(intent, "succeeded", o.val, NoneVal)
    ELSE IF o.kind = "IntentNotFoundError"
    THEN PayloadRecord(intent, "failed", NoneVal,
                       "Intent not found: " \o o.val)
    ELSE PayloadRecord(intent, "failed", NoneVal, o.val)

\* The step after the worker's store as it would be without the URL test.
AfterWorker_always_calls(callback_url) == "bg_callback"

\* "if callback_url:" (line 158): the callback follows only for a URL.
AfterWorker(callback_url) ==
    IF Truthy(callback_url) THEN "bg_callback" ELSE "finished"

\* dispatch() returns or raises: the payload is stored (lines 116, 133, 150),
\* and the callback follows if a callback URL was given (line 158).
WorkerFinish(r) ==
    /\ pc[r] = "bg_exec"
    /\ \E o \in dispatch(req[r].mode, req[r].intent, req[r].inputs) :
        /\ worker_payload' = [worker_payload EXCEPT ![r] =
                                WorkerPayload(req[r].intent, o)]
        /\ jobStore' = StorePut(jobStore, job_id[r],
                                WorkerPayload(req[r].intent, o))
        /\ outcomes' = [outcomes EXCEPT ![r] = Append(@, o.kind)]
    /\ pc' = [pc EXCEPT ![r] = AfterWorker(req[r].callback_url)]
    /\ reply' = NoReply
    /\ UNCHANGED << HandlerFrame, resp, tasks, starts, callbacks >>

\* What the callback POST can do.
CallbackOutcomes == {"2xx", "timeout", "non2xx", "transport_error"}

\* Lines 159-176: every failure of the POST is caught and logged.
AfterCallback(outcome) == "finished"

\* The job store as it would be if a failed callback failed the job.
StoreAfterCallback_marks_failed(store, id, outcome) ==
    IF outcome = "2xx" \/ id \notin StoreIds(store) THEN store
    ELSE StorePut(store, id,
                  [StoreGet(store, id) EXCEPT !.status = "failed",
                                              !.result = NoneVal,
                                              !.error = "callback failed"])

\* The job store after the callback attempt: it is not written.
StoreAfterCallback(store, id, outcome) == store

SendCallback(r) ==
    /\ pc[r] = "bg_callback"
    /\ \E outcome \in CallbackOutcomes :
        /\ callbacks' = [callbacks EXCEPT ![r] = @ + 1]
        /\ reply' = [op |-> "Callback", http |-> 0, job_id |-> job_id[r],
                     status |-> outcome, result |-> NoneVal,
                     error |-> NoneVal]
        /\ pc' = [pc EXCEPT ![r] = AfterCallback(outcome)]
        /\ jobStore' = StoreAfterCallback(jobStore, job_id[r], outcome)
    /\ UNCHANGED << WorkFrame, resp, tasks, starts >>

(***************************************************************************)
(* GetJob and IngestCallback.                                              *)
(***************************************************************************)
\* get_job_status as it would be if an unknown id were answered as queued.
GetJobResponse_unknown_queued(store, id) ==
    IF id \notin StoreIds(store)
    THEN [op |-> "GetJob", http |-> 200, job_id |-> id, status |-> "queued",
          result |-> NoneVal, error |-> NoneVal]
    ELSE [op |-> "GetJob", http |-> 200, job_id |-> id,
          status |-> StoreGet(store, id).status,
          result |-> StoreGet(store, id).result,
          error |-> StoreGet(store, id).error]

\* get_job_status: 404 for an unknown id, else JobCallbackPayload(**job_data),
\* which needs intent and status to be present.
GetJobResponse(store, id) ==
    IF id \notin StoreIds(store)
    THEN [op |-> "GetJob", http |-> 404, job_id |-> id, status |-> NoneVal,
          result |-> NoneVal, error |-> "Job not found"]
    ELSE LET d == StoreGet(store, id)
         IN  IF d.intent = NoIntent \/ d.status = NoneVal
             THEN [op |-> "GetJob", http |-> 500, job_id |-> id,
                   status |-> NoneVal, result |-> NoneVal,
                   error |-> "ValidationError"]
             ELSE [op |-> "GetJob", http |-> 200, job_id |-> id,
                   status |-> d.status, result |-> d.result,
                   error |-> d.error]

GetJob ==
    /\ \E id \in JobIds : reply' = GetJobResponse(jobStore, id)
    /\ UNCHANGED << jobStore, pc, req, job_id, idem_key, resp, tasks, starts,
                    callbacks, outcomes, worker_payload, overlap, ingests,
                    uuid_fresh,
                    client_keys, client_targets, OutsideRouter >>

\* The payloads external systems post to /callbacks/ingest; the first has
\* no "status" key.
IngestBodies ==
    { [status |-> NoneVal, result |-> NoneVal, error |-> NoneVal],
      [status |-> "queued", result |-> NoneVal, error |-> NoneVal],
      [status |-> "succeeded", result |-> "ext_result", error |-> NoneVal],
      [status |-> "failed", result |-> NoneVal, error |-> "ext_error"],
      [status |-> "failed", result |-> "ext_result", error |-> "ext_error"] }

\* What the payload has under "job_id": no such key, null, the empty
\* string, the number 0, or a job id string (then job_id is the id).
JobIdForms == {"absent", NoneVal, "", "0", "str"}

IngestPayloads ==
    { [job_id_form |-> "str", job_id |-> id, intent |-> <<"gmail", "triage">>,
       status |-> b.status, result |-> b.result, error |-> b.error] :
         id \in JobIds, b \in IngestBodies }
    \cup
    { [job_id_form |-> f, job_id |-> NoJob, intent |-> <<"gmail", "triage">>,
       status |-> b.status, result |-> b.result, error |-> b.error] :
         f \in JobIdForms \ {"str"}, b \in IngestBodies }

\* The test of ingest_callback as it would be if it tested for the key only.
missing_job_id_key_only(payload) == payload.job_id_form = "absent"

\* job_id = payload.get("job_id"); if not job_id
missing_job_id(payload) ==
    IF payload.job_id_form = "str" THEN FALSE
    ELSE IF payload.job_id_form = "absent" THEN ~TruthyValue(NoneVal)
    ELSE ~TruthyValue(payload.job_id_form)

\* ingest_callback: 400 without job_id, else the payload replaces the record.
IngestCallback ==
    /\ MoreRequests
    /\ ingests' = ingests + 1
    /\ \E payload \in IngestPayloads :
        IF missing_job_id(payload)
        THEN /\ reply' = [op |-> "IngestCallback", http |-> 400,
                          job_id |-> NoJob, status |-> NoneVal,
                          result |-> NoneVal,
                          error |-> "Missing job_id in payload"]
             /\ UNCHANGED jobStore
        ELSE /\ jobStore' = StorePut(jobStore, payload.job_id,
                                [intent |-> payload.intent,
                                 status |-> payload.status,
                                 result |-> payload.result,
                                 error |-> payload.error,
                                 idempotency_key |-> NoKey])
             /\ reply' = [op |-> "IngestCallback", http |-> 200,
                          job_id |-> payload.job_id, status |-> "ok",
                          result |-> NoneVal, error |-> NoneVal]
    /\ UNCHANGED << pc, req, job_id, idem_key, resp, tasks, starts,
                    callbacks, outcomes, worker_payload, overlap, uuid_fresh,
                    client_keys,
                    client_targets, OutsideRouter >>

Next ==
    \/ \E r \in Reqs : DispatchHit(r)
    \/ \E r \in Reqs : DispatchFast(r)
    \/ \E r \in Reqs : DispatchBackground(r)
    \/ \E r \in Reqs : FastReturn(r)
    \/ \E r \in Reqs : FastTimeout(r)
    \/ \E r \in Reqs : FastError(r)
    \/ \E r \in Reqs : WorkerStart(r)
    \/ \E r \in Reqs : WorkerFinish(r)
    \/ \E r \in Reqs : SendCallback(r)
    \/ GetJob
    \/ IngestCallback

Spec == Init /\ [][Next]_vars

SpecAnyUuid == InitAnyUuid /\ [][Next]_vars

SpecEmptyKey == InitEmptyKey /\ [][Next]_vars

SpecLocal == InitLocal /\ [][Next]_vars

\* The event loop runs every scheduled background task to completion.
WorkerFairness ==
    \A r \in Reqs :
        /\ WF_vars(WorkerStart(r))
        /\ WF_vars(WorkerFinish(r))
        /\ WF_vars(SendCallback(r))

FairSpec == SpecAnyUuid /\ WorkerFairness

(***************************************************************************)
(* Direct calls of the pure functions: the executors, the Mode Resolver    *)
(* and the key derivation applied to arguments drawn from bounded sets.    *)
(***************************************************************************)
MaxEntries == 2       \* entries of an inputs dict

\* The dicts of at most MaxEntries of the given entries, in every order.
DictsOf(entries) ==
    { d \in UNION { [1..n -> entries] : n \in 0..MaxEntries } :
        \A i \in DOMAIN d, j \in DOMAIN d : i # j => d[i].k # d[j].k }

ConfirmValues == {"True", "False", NoneVal, "0", "1", "", "yes"}

AgentIntents ==
    { <<"ssh", "exec">>, <<"ssh", "exec", "peek">>, <<"ssh", "run">>,
      <<"fs", "read">>, <<"no", "such", "tool">> }

AgentInputs ==
    DictsOf({ [k |-> "command", v |-> "ls"] }
              \cup { [k |-> "confirm_dangerous", v |-> c] : c \in ConfirmValues })

\* await run_agent(intent, inputs, trace)
CallRunAgent ==
    /\ \E intent \in AgentIntents, inputs \in AgentInputs :
         \E run \in run_agent_runs(intent, inputs) :
            call' = [fn |-> "run_agent", intent |-> intent, inputs |-> inputs,
                     outcome |-> run.outcome, tool_calls |-> run.tool_calls,
                     would_execute |-> run.would_execute]
    /\ UNCHANGED << RouterVars, LimiterVars >>

ResolverIntents ==
    { <<"memory", "search">>, <<"memory", "read">>, <<"gmail", "triage">>,
      <<"gmail", "peek">>, <<"digest", "daily">>, <<"workflow", "run">>,
      <<"fs", "read">>, <<"fs", "list">>, <<"ssh", "exec">>,
      <<"ssh", "exec", "peek">>, <<"unknown", "namespace", "op">>,
      <<"unknown", "peek">>, <<"peek">>, <<"memory">>, <<"ssh">> }

\* await auto_select_mode(intent, inputs)
CallAutoSelectMode ==
    /\ \E intent \in ResolverIntents :
         call' = [fn |-> "auto_select_mode", intent |-> intent,
                  out |-> auto_select_mode(intent)]
    /\ UNCHANGED << RouterVars, LimiterVars >>

KeyIntents == { <<"fs", "read">>, <<"gmail", "triage">> }

KeyInputs == DictsOf([k : {"a", "b"}, v : {"0", "1"}])

\* generate_idempotency_key applied to two requests.
CallGenerateKey ==
    /\ \E i1 \in KeyIntents, i2 \in KeyIntents,
          d1 \in KeyInputs, d2 \in KeyInputs :
         call' = [fn |-> "generate_idempotency_key",
                  intent1 |-> i1, inputs1 |-> d1,
                  key1 |-> generate_idempotency_key(i1, d1),
                  intent2 |-> i2, inputs2 |-> d2,
                  key2 |-> generate_idempotency_key(i2, d2)]
    /\ UNCHANGED << RouterVars, LimiterVars >>

DispatchIntents ==
    { <<"fs", "read">>, <<"gmail", "triage">>, <<"memory", "search">>,
      <<"ssh", "exec">>, <<"no", "such", "tool">> }

\* await dispatch(mode, intent, inputs, trace)
CallDispatch ==
    /\ \E mode \in Modes, intent \in DispatchIntents, inputs \in InputsSet :
         \E run \in dispatch_runs(mode, intent, inputs) :
            call' = [fn |-> "dispatch", mode |-> mode, intent |-> intent,
                     inputs |-> inputs,
                     resolver_calls |-> run.resolver_calls,
                     selected_mode |-> run.selected_mode,
                     executor_calls |-> run.executor_calls,
                     outcome |-> run.outcome]
    /\ UNCHANGED << RouterVars, LimiterVars >>

\* The trace dicts clients send: none, a request id, and one whose keys are
\* named like the request's control fields.
Traces ==
    { << >>,
      << [k |-> "request_id", v |-> "req_1"] >>,
      << [k |-> "idempotency_key", v |-> "k1"], [k |-> "mode", v |-> "agent"] >> }

\* d[key] = v
DictSet(d, key, v) ==
    IF key \in DictKeys(d)
    THEN [i \in 1..Len(d) |-> IF d[i].k = key THEN [k |-> key, v |-> v]
                                ELSE d[i]]
    ELSE Append(d, [k |-> key, v |-> v])

\* The trace the handler hands to dispatch() (lines 230-234): a copy of
\* req.trace with the job id, and a generated request id if it has none.
HandlerTrace(rq, id) ==
    LET trace == DictSet(rq.trace, "job_id", id)
    IN  IF "request_id" \notin DictKeys(trace)
        THEN DictSet(trace, "request_id", "req_new")
        ELSE trace

\* What the handler decides for a request, given the store and the key it
\* looks up: the lookup's outcome, the path, the executors dispatch() may
\* call and the statuses the response may carry.
DecisionFor(store, rq, key) ==
    LET i == LookupIndex(store, key)
        runs == dispatch_runs(rq.mode, rq.intent, rq.inputs)
        fast_statuses ==
            { IF run.outcome.kind = "ok" THEN "succeeded"
              ELSE IF run.outcome.kind = "IntentNotFoundError" THEN "404"
              ELSE "500" : run \in runs }
            \cup (IF \E d \in Durations(rq.mode, rq.intent, rq.inputs) :
                        d > SyncTimeout
                  THEN {"queued"} ELSE {})
    IN  [idempotency_key |-> key,
         hit |-> i # 0,
         path |-> IF i # 0 THEN "cached"
                  ELSE IF is_fast_intent(rq) THEN "fast" ELSE "background",
         executors |-> IF i # 0 THEN {}
                       ELSE { run.executor_calls : run \in runs },
         statuses |-> IF i # 0 THEN { store[i].data.status }
                      ELSE IF is_fast_intent(rq) THEN fast_statuses
                      ELSE {"queued"}]

\* The handler's decisions as they would be if the generated key covered the
\* trace as well.
AdmissionDecision_keyed_by_trace(store, rq) ==
    DecisionFor(store, rq,
                IF Truthy(rq.idempotency_key) THEN IdemKeyOf(rq)
                ELSE [text |-> NoneVal,
                      sha256 |-> Append(json_dumps(rq.intent, rq.inputs, TRUE),
                                        rq.trace)])

\* The handler's decisions for a request (lines 209-244).
AdmissionDecision(store, rq) == DecisionFor(store, rq, IdemKeyOf(rq))

\* A request with its trace field.
WithTrace(rq, trace) ==
    [intent |-> rq.intent, inputs |-> rq.inputs, mode |-> rq.mode,
     callback_url |-> rq.callback_url,
     idempotency_key |-> rq.idempotency_key, trace |-> trace]

AdmissionRequests ==
    { rq \in Requests : /\ rq.callback_url = NoneVal
                        /\ rq.idempotency_key \in {NoneVal, "k1"} }

\* The stores the two requests are issued against: empty, or holding the
\* finished job of an earlier request with the same fields.
AdmissionStores(rq) ==
    { << >>,
      StorePut(<< >>, 1, SyncRecord(rq.intent, "tool_result", IdemKeyOf(rq))) }

\* POST /orchestrate for two requests that differ in their trace only, each
\* against the same store.
CallOrchestratePair ==
    /\ \E rq \in AdmissionRequests, t1 \in Traces, t2 \in Traces :
         \E store \in AdmissionStores(rq) :
            /\ t1 # t2
            /\ call' = [fn |-> "orchestrate", store |-> store,
                        request1 |-> WithTrace(rq, t1),
                        request2 |-> WithTrace(rq, t2),
                        decision1 |->
                            AdmissionDecision(store, WithTrace(rq, t1)),
                        decision2 |->
                            AdmissionDecision(store, WithTrace(rq, t2)),
                        trace1 |-> HandlerTrace(WithTrace(rq, t1), "job_new"),
                        trace2 |-> HandlerTrace(WithTrace(rq, t2), "job_new")]
    /\ UNCHANGED << RouterVars, LimiterVars >>

\* run_flow's intent_routes (lines 68-74): the webhook of each routed intent.
intent_routes ==
    { [intent |-> <<"gmail", "triage">>, url |-> "gmail-triage"],
      [intent |-> <<"gmail", "send">>, url |-> "gmail-send"],
      [intent |-> <<"digest", "daily">>, url |-> "digest-daily"],
      [intent |-> <<"memory", "search">>, url |-> "memory-search"],
      [intent |-> <<"fs", "analyze">>, url |-> "fs-analyze"] }

\* intent_routes.get(intent, f"{N8N_WEBHOOK_BASE}/orchestrate")
webhook_url(intent) ==
    IF \E route \in intent_routes : route.intent = intent
    THEN (CHOOSE route \in intent_routes : route.intent = intent).url
    ELSE "orchestrate"

\* What the POST to the webhook can do: answer 2xx with a JSON body, answer
\* 2xx with a body that is not JSON, time out, answer with another status,
\* or fail in the transport (text is str(e) of the exception raised).
FlowEvents ==
    { [kind |-> "json", status |-> "200", body |-> "flow_json",
       text |-> NoneVal],
      [kind |-> "not_json", status |-> "200", body |-> "<html>",
       text |-> "Expecting value"],
      [kind |-> "timeout", status |-> NoneVal, body |-> NoneVal,
       text |-> "ReadTimeout"],
      [kind |-> "status", status |-> "404", body |-> "no such webhook",
       text |-> "Client error '404 Not Found'"],
      [kind |-> "status", status |-> "500", body |-> "workflow crashed",
       text |-> "Server error '500 Internal Server Error'"],
      [kind |-> "transport", status |-> NoneVal, body |-> NoneVal,
       text |-> "ConnectError"] }

\* run_flow's handlers as they would be if a 404 of the flow engine were
\* reported as an unknown intent.
FlowResult_404_not_found(event) ==
    IF event.kind = "json"
    THEN [outcome |-> Ok(event.body), message |-> NoneVal]
    ELSE IF event.kind = "timeout"
    THEN [outcome |-> Raise("OrchestratorError", "Flow execution timed out"),
          message |-> "Flow execution timed out: " \o event.text]
    ELSE IF event.kind = "status" /\ event.status = "404"
    THEN [outcome |-> Raise("IntentNotFoundError", "Flow returned error"),
          message |-> "Flow returned error " \o event.status \o ": "
                        \o event.body]
    ELSE IF event.kind = "status"
    THEN [outcome |-> Raise("OrchestratorError", "Flow returned error"),
          message |-> "Flow returned error " \o event.status \o ": "
                        \o event.body]
    ELSE [outcome |-> Raise("OrchestratorError", "Flow execution failed"),
          message |-> "Flow execution failed: " \o event.text]

\* What run_flow returns or raises for what the POST did (lines 93-126):
\* the outcome, and the full message of the exception raised.
FlowResult(event) ==
    IF event.kind = "json"
    THEN [outcome |-> Ok(event.body), message |-> NoneVal]
    ELSE IF event.kind = "timeout"
    THEN [outcome |-> Raise("OrchestratorError", "Flow execution timed out"),
          message |-> "Flow execution timed out: " \o event.text]
    ELSE IF event.kind = "status"
    THEN [outcome |-> Raise("OrchestratorError", "Flow returned error"),
          message |-> "Flow returned error " \o event.status \o ": "
                        \o event.body]
    ELSE [outcome |-> Raise("OrchestratorError", "Flow execution failed"),
          message |-> "Flow execution failed: " \o event.text]

\* Every way a call of run_flow can go.
run_flow_runs(intent, inputs) ==
    { [webhook_url |-> webhook_url(intent), event |-> event,
       outcome |-> FlowResult(event).outcome,
       message |-> FlowResult(event).message] : event \in FlowEvents }

FlowIntents ==
    { <<"gmail", "triage">>, <<"fs", "read">>, <<"no", "such", "tool">> }

\* await run_flow(intent, inputs, trace)
CallRunFlow ==
    /\ \E intent \in FlowIntents, inputs \in InputsSet :
         \E run \in run_flow_runs(intent, inputs) :
            call' = [fn |-> "run_flow", intent |-> intent, inputs |-> inputs,
                     webhook_url |-> run.webhook_url, event |-> run.event,
                     outcome |-> run.outcome, message |-> run.message]
    /\ UNCHANGED << RouterVars, LimiterVars >>

\* API_KEY
API_KEY == "replace-me-with-a-long-random-string"

\* What the Authorization header carries: nothing, an empty token, a token
\* that is not the key, the key.
Credentials == {NoneVal, "", "not-the-key", API_KEY}

\* How a step ends: it returns, or raises an exception; http is the status
\* an HTTPException carries, and for any other exception the 500 the
\* framework answers.
Returns(v) == [kind |-> "return", http |-> 0, detail |-> v]
Raises(kind, http, detail) == [kind |-> kind, http |-> http, detail |-> detail]

\* await api_auth(credentials); quota_allowed is check_rate_limit's
\* "allowed" for the token.
api_auth(credentials, quota_allowed) ==
    IF credentials = NoneVal
    THEN Raises("HTTPException", 401, "Authorization header required")
    ELSE IF credentials = ""
    THEN Raises("HTTPException", 401, "Bearer token required")
    ELSE IF credentials # API_KEY
    THEN Raises("HTTPException", 401, "Invalid API key")
    ELSE IF ~quota_allowed
    THEN Raises("HTTPException", 429, "Rate limit exceeded")
    ELSE Returns(credentials)

\* The names bound where the handler's first statements run: its
\* parameters, its local import, and the module's globals.
OrchestrateNames ==
    { "req", "background_tasks", "_token", "api_auth" }
        \cup { "APIRouter", "HTTPException", "BackgroundTasks", "Depends",
               "HTTPAuthorizationCredentials", "BaseModel", "Field",
               "Optional", "Dict", "Any", "hashlib", "json", "uuid",
               "logging", "asyncio", "httpx", "security", "dispatch", "Mode",
               "OrchestratorError", "IntentNotFoundError", "logger", "router",
               "_job_store", "OrchestrateRequest", "OrchestrateResponse",
               "JobCallbackPayload", "generate_idempotency_key",
               "execute_with_callback", "orchestrate", "get_job_status",
               "ingest_callback" }

\* Evaluating a name: its value, or NameError when nothing binds it.
Lookup(name, value) ==
    IF name \in OrchestrateNames
    THEN Returns(value)
    ELSE Raises("NameError", 500, name)

\* The handler's "Validate authentication" block: the argument
\* `authorization` is evaluated, api_auth awaited, and an HTTPException
\* answered as 401; any other exception leaves the handler as it is.
validate_authentication(credentials, quota_allowed) ==
    LET arg == Lookup("authorization", credentials)
    IN  IF arg.kind # "return"
        THEN arg
        ELSE LET auth == api_auth(arg.detail, quota_allowed)
             IN  IF auth.kind = "HTTPException"
                 THEN Raises("HTTPException", 401, "Unauthorized")
                 ELSE Returns("idempotency lookup")

\* POST /orchestrate up to the idempotency lookup: the api_auth dependency
\* of the signature, and for a request it lets through the handler's own
\* authentication block.
CallOrchestrateAuth ==
    /\ \E credentials \in Credentials, quota1 \in BOOLEAN, quota2 \in BOOLEAN :
         LET dep == api_auth(credentials, quota1)
             entered == dep.kind = "return"
         IN  call' = [fn |-> "orchestrate_auth", credentials |-> credentials,
                      entered |-> entered,
                      out |-> IF entered
                              THEN validate_authentication(credentials, quota2)
                              ELSE dep]
    /\ UNCHANGED << RouterVars, LimiterVars >>

NextCalls ==
    \/ CallOrchestrateAuth
    \/ CallRunFlow
    \/ CallOrchestratePair
    \/ CallRunAgent
    \/ CallAutoSelectMode
    \/ CallGenerateKey
    \/ CallDispatch

SpecCalls == Init /\ [][NextCalls]_vars

(***************************************************************************)
(* The rate limiter: check_rate_limit and its in-memory token bucket.      *)
(* _get_redis_client() returns None here (the redis package is not         *)
(* installed), so an enabled limiter runs _check_rate_limit_memory.        *)
(***************************************************************************)
RateResult(allowed, remaining, reset_time, limit) ==
    [allowed |-> allowed, remaining |-> remaining,
     reset_time |-> reset_time, limit |-> limit]

\* The reset as it would be if it left the count as it is.
WindowReset_keeps_count(bucket, window_seconds, t) ==
    IF t >= bucket.reset_time
    THEN [bucket EXCEPT !.reset_time = t + window_seconds]
    ELSE bucket

\* The bucket at the start of a check: reset if its window has expired.
WindowReset(bucket, window_seconds, t) ==
    IF t >= bucket.reset_time
    THEN [count |-> 0, reset_time |-> t + window_seconds]
    ELSE bucket

\* _check_rate_limit_memory as it would be if it blocked one call late.
check_rate_limit_memory_one_late(store, key, limit, window_seconds, t) ==
    LET bucket == WindowReset(store[key], window_seconds, t)
    IN  IF bucket.count > limit
        THEN [store |-> [store EXCEPT ![key] = bucket],
              result |-> RateResult(FALSE, 0, bucket.reset_time, limit)]
        ELSE [store |-> [store EXCEPT ![key] =
                           [bucket EXCEPT !.count = @ + 1]],
              result |-> RateResult(TRUE, limit - (bucket.count + 1),
                                    bucket.reset_time, limit)]

\* _check_rate_limit_memory as it would be if it computed remaining before
\* counting the call.
check_rate_limit_memory_stale(store, key, limit, window_seconds, t) ==
    LET bucket == WindowReset(store[key], window_seconds, t)
    IN  IF bucket.count >= limit
        THEN [store |-> [store EXCEPT ![key] = bucket],
              result |-> RateResult(FALSE, 0, bucket.reset_time, limit)]
        ELSE [store |-> [store EXCEPT ![key] =
                           [bucket EXCEPT !.count = @ + 1]],
              result |-> RateResult(TRUE, limit - bucket.count,
                                    bucket.reset_time, limit)]

\* _check_rate_limit_memory: the store it leaves and the dict it returns.
check_rate_limit_memory(store, key, limit, window_seconds, t) ==
    LET bucket == WindowReset(store[key], window_seconds, t)
    IN  IF bucket.count >= limit
        THEN [store |-> [store EXCEPT ![key] = bucket],
              result |-> RateResult(FALSE, 0, bucket.reset_time, limit)]
        ELSE [store |-> [store EXCEPT ![key] =
                           [bucket EXCEPT !.count = @ + 1]],
              result |-> RateResult(TRUE, limit - (bucket.count + 1),
                                    bucket.reset_time, limit)]

\* check_rate_limit
check_rate_limit(store, enabled, key, limit, window_seconds, t) ==
    IF ~enabled
    THEN [store |-> store,
          result |-> RateResult(TRUE, limit, t + window_seconds, limit)]
    ELSE check_rate_limit_memory(store, key, limit, window_seconds, t)

\* time passes
Tick ==
    /\ now < MaxNow
    /\ now' = now + 1
    /\ UNCHANGED << RouterVars, call, rate_env, rate_limit_store, checks,
                    RedisVars >>

\* await check_rate_limit(key, limit, window_seconds)
CheckRateLimit ==
    /\ Len(checks) < MaxChecks
    /\ \E key \in RateKeys :
         LET out == check_rate_limit(rate_limit_store,
                                     rate_env.RATE_LIMIT_ENABLED, key,
                                     rate_env.limit, rate_env.window_seconds,
                                     now)
         IN  /\ rate_limit_store' = out.store
             /\ checks' = Append(checks, [key |-> key, at |-> now,
                                          result |-> out.result])
    /\ UNCHANGED << RouterVars, call, rate_env, now, RedisVars >>

NextRateLimit ==
    \/ Tick
    \/ CheckRateLimit

SpecRateLimit == InitRateLimit /\ [][NextRateLimit]_vars

(***************************************************************************)
(* The Redis-backed limiter: _check_rate_limit_redis awaits the server     *)
(* twice, once to read the key's count and reset time and once to write    *)
(* them back, and other callers run between the two.                       *)
(***************************************************************************)
\* The limiter enabled, every limit and window.
InitRedis ==
    /\ InitProgram
    /\ uuid_fresh = TRUE
    /\ client_keys = {NoneVal, "k1"}
    /\ client_targets = Targets
    /\ rate_env \in { e \in RateEnvs : e.RATE_LIMIT_ENABLED }

\* Calls that have read and not yet written.
InFlight == { p \in Callers : redis_calls[p].at = "read" }

\* pipeline.get(count_key); pipeline.get(reset_key); execute()
RedisGet(key) ==
    IF now >= redis_keys[key].expires
    THEN [count |-> 0, reset_time |-> now + rate_env.window_seconds]
    ELSE [count |-> redis_keys[key].count,
          reset_time |-> redis_keys[key].reset]

\* The count and reset time after "if now >= reset_time".
RedisWindow(got) ==
    IF now >= got.reset_time
    THEN [count |-> 0, reset_time |-> now + rate_env.window_seconds]
    ELSE got

\* One more finished call, served by `via`.
Answer(key, t, via, result) ==
    Append(checks, [key |-> key, at |-> t, via |-> via, result |-> result])

\* _check_rate_limit_redis up to its second await: the read, the window
\* reset and the limit check, which answers a call over the limit.
RedisRead(p) ==
    /\ redis_calls[p].at = "idle"
    /\ Len(checks) + Cardinality(InFlight) < MaxChecks
    /\ \E key \in RateKeys :
         LET w == RedisWindow(RedisGet(key))
         IN  IF w.count >= rate_env.limit
             THEN /\ checks' = Answer(key, now, "redis",
                                      RateResult(FALSE, 0, w.reset_time,
                                                 rate_env.limit))
                  /\ UNCHANGED redis_calls
             ELSE /\ redis_calls' = [redis_calls EXCEPT ![p] =
                        [at |-> "read", key |-> key, t |-> now,
                         count |-> w.count, reset_time |-> w.reset_time]]
                  /\ UNCHANGED checks
    /\ UNCHANGED << RouterVars, call, rate_env, rate_limit_store, now,
                    redis_keys >>

\* The rest of _check_rate_limit_redis: count += 1, both keys set with
\* ex=window_seconds, and the call allowed.
RedisWrite(p) ==
    /\ redis_calls[p].at = "read"
    /\ LET c == redis_calls[p]
       IN  /\ redis_keys' = [redis_keys EXCEPT ![c.key] =
                  [count |-> c.count + 1, reset |-> c.reset_time,
                   expires |-> now + rate_env.window_seconds]]
           /\ checks' = Answer(c.key, c.t, "redis",
                               RateResult(TRUE, rate_env.limit - (c.count + 1),
                                          c.reset_time, rate_env.limit))
    /\ redis_calls' = [redis_calls EXCEPT ![p] = IdleCall]
    /\ UNCHANGED << RouterVars, call, rate_env, rate_limit_store, now >>

\* Either execute() raises: the except branch answers from the in-memory
\* store.
RedisError(p) ==
    /\ IF redis_calls[p].at = "idle"
       THEN Len(checks) + Cardinality(InFlight) < MaxChecks
       ELSE TRUE
    /\ \E key \in IF redis_calls[p].at = "idle" THEN RateKeys
                    ELSE {redis_calls[p].key} :
         LET out == check_rate_limit_memory(rate_limit_store, key,
                                            rate_env.limit,
                                            rate_env.window_seconds, now)
         IN  /\ rate_limit_store' = out.store
             /\ checks' = Answer(key, now, "memory", out.result)
    /\ redis_calls' = [redis_calls EXCEPT ![p] = IdleCall]
    /\ UNCHANGED << RouterVars, call, rate_env, now, redis_keys >>

\* time passes while calls are in progress
RedisTick ==
    /\ now < MaxNow
    /\ now' = now + 1
    /\ UNCHANGED << RouterVars, call, rate_env, rate_limit_store, checks,
                    RedisVars >>

NextRedis ==
    \/ RedisTick
    \/ \E p \in Callers : RedisRead(p)
    \/ \E p \in Callers : RedisWrite(p)
    \/ \E p \in Callers : RedisError(p)

SpecRedis == InitRedis /\ [][NextRedis]_vars

(***************************************************************************)
(* Vocabulary of the properties.                                           *)
(***************************************************************************)
Terminal == {"succeeded", "failed"}

\* The handler has returned a response.
Answered(r) == resp[r].http # 0

\* The idempotency lookup of request r missed: the handler went on to run
\* the request as a new job.
Missed(r) == starts[r] > 0 \/ r \in tasks

\* Request r created a job: it wrote a new record and returned its job id.
Created(r) == Missed(r) /\ resp[r].http = 200

\* The fast-path attempt of request r ended in outcome k.
FastOutcome(r, k) ==
    /\ req[r] # NoReq
    /\ is_fast_intent(req[r])
    /\ Len(outcomes[r]) >= 1
    /\ outcomes[r][1] = k

(***************************************************************************)
(* C1.  Two Dispatch handlers that carry the same idempotency key          *)
(* (explicit or derived) and are in flight at the same time create exactly *)
(* one job, and the second caller's response carries the first caller's    *)
(* job id.                                                                 *)
(***************************************************************************)
C1_SingleFlight ==
    \A r1 \in Reqs, r2 \in Reqs :
        ( /\ r1 \in overlap[r2]
          /\ idem_key[r1] = idem_key[r2]
          /\ resp[r1].http = 200
          /\ resp[r2].http = 200 )
        => /\ ~(Created(r1) /\ Created(r2))
           /\ resp[r2].job_id = resp[r1].job_id

(***************************************************************************)
(* C2.  Once a Dispatch with key K has created job J, every later Dispatch *)
(* with K returns J's job id and creates no new job, whatever J's status   *)
(* is and whichever path (fast or background) completed J.                 *)
(***************************************************************************)
C2_CanonicalJob ==
    \A r1 \in Reqs, r2 \in Reqs :
        ( /\ r1 < r2
          /\ r1 \notin overlap[r2]
          /\ Created(r1)
          /\ idem_key[r1] = idem_key[r2]
          /\ pc[r2] # "idle" )
        => /\ ~Missed(r2)
           /\ Answered(r2) => resp[r2].job_id = resp[r1].job_id

(***************************************************************************)
(* C3.  A job's status never regresses: once the job store holds status    *)
(* succeeded or failed for a job id, the status stored and reported by     *)
(* GetJob for that id never changes again.                                 *)
(***************************************************************************)
C3_TerminalIsFinal ==
    [][ \A id \in StoreIds(jobStore) :
          StoreGet(jobStore, id).status \in Terminal
          => /\ id \in StoreIds(jobStore')
             /\ StoreGet(jobStore', id).status = StoreGet(jobStore, id).status
             /\ GetJobResponse(jobStore', id).status
                  = GetJobResponse(jobStore, id).status ]_vars


(***************************************************************************)
(* C4.  When the executor of a fast-path-eligible request completes        *)
(* (returns its result) inside the timeout bound, Dispatch returns a       *)
(* terminal response inline, records the job in the job store already in   *)
(* a terminal state, and schedules no background task for it.              *)
(***************************************************************************)
C4_FastPathInline ==
    /\ [][ \A r \in Reqs :
             (pc[r] = "sync_wait" /\ outcomes'[r] = <<"ok">>)
             => /\ resp'[r].http = 200
                /\ resp'[r].status \in Terminal
                /\ resp'[r].result # NoneVal
                /\ resp'[r].job_id = job_id[r]
                /\ job_id[r] \in StoreIds(jobStore')
                /\ StoreGet(jobStore', job_id[r]).status \in Terminal
                /\ StoreGet(jobStore', job_id[r]).result = resp'[r].result
                /\ r \notin tasks' ]_vars
    /\ [](\A r \in Reqs :
             FastOutcome(r, "ok")
             => r \notin tasks /\ pc[r] = "responded" /\ starts[r] = 1)

C4_Witness ==
    \E r \in Reqs :
        /\ FastOutcome(r, "ok")
        /\ resp[r].status = "succeeded"
        /\ StoreGet(jobStore, job_id[r]).status = "succeeded"
        /\ r \notin tasks

(***************************************************************************)
(* C5.  When the executor of a fast-path-eligible request exceeds the      *)
(* timeout bound, Dispatch returns status queued with a job id (never an   *)
(* error), and GetJob on that id eventually reports a terminal status,     *)
(* the background worker being scheduled fairly.                           *)
(***************************************************************************)
C5_TimeoutFallsBack ==
    /\ [](\A r \in Reqs :
             FastOutcome(r, "timeout")
             => /\ resp[r].http = 200
                /\ resp[r].status = "queued"
                /\ resp[r].job_id = job_id[r]
                /\ job_id[r] # NoJob)
    /\ \A r \in Reqs :
          (FastOutcome(r, "timeout") /\ pc[r] = "bg_pending")
          ~> ( /\ GetJobResponse(jobStore, job_id[r]).http = 200
               /\ GetJobResponse(jobStore, job_id[r]).status \in Terminal )

C5_Witness ==
    \E r \in Reqs :
        /\ FastOutcome(r, "timeout")
        /\ resp[r].status = "queued"
        /\ pc[r] = "finished"
        /\ GetJobResponse(jobStore, job_id[r]).status \in Terminal

(***************************************************************************)
(* C6.  In every reachable job store state, no job record has both a       *)
(* non-empty result and a non-empty error, whichever operation last wrote  *)
(* the record (Dispatch, the background worker or IngestCallback).         *)
(***************************************************************************)
C6_ResultErrorExclusive ==
    \A i \in 1..Len(jobStore) :
        ~(jobStore[i].data.result # NoneVal /\ jobStore[i].data.error # NoneVal)

(***************************************************************************)
(* C7.  Every job record whose status is terminal has exactly one of       *)
(* result and error populated: a succeeded record carries a result and no  *)
(* error, a failed record carries an error and no result.                  *)
(***************************************************************************)
C7_TerminalHasExactlyOne ==
    \A i \in 1..Len(jobStore) :
        LET d == jobStore[i].data
        IN  /\ d.status = "succeeded"
               => (d.result # NoneVal /\ d.error = NoneVal)
            /\ d.status = "failed"
               => (d.error # NoneVal /\ d.result = NoneVal)

(***************************************************************************)
(* C8.  Callback delivery never affects the job outcome: the status the    *)
(* worker stores is the one the executor's outcome determines, and         *)
(* whatever the callback attempt does (timeout, non-2xx, transport error)  *)
(* the worker ends normally and the job store is not written.              *)
(***************************************************************************)
C8_CallbackIndependent ==
    [][ \A r \in Reqs :
          /\ (pc[r] = "bg_exec" /\ pc'[r] # "bg_exec")
             => StoreGet(jobStore', job_id[r]).status
                  = (IF outcomes'[r][Len(outcomes'[r])] = "ok"
                     THEN "succeeded" ELSE "failed")
          /\ (pc[r] = "bg_callback" /\ pc'[r] # "bg_callback")
             => /\ pc'[r] = "finished"
                /\ jobStore' = jobStore
                /\ resp' = resp ]_vars

C8_Witness ==
    \E r \in Reqs :
        /\ pc[r] = "finished"
        /\ reply.op = "Callback"
        /\ reply.job_id = job_id[r]
        /\ reply.status # "2xx"
        /\ outcomes[r][Len(outcomes[r])] = "ok"
        /\ StoreGet(jobStore, job_id[r]).status = "succeeded"

(***************************************************************************)
(* C9.  For every job dispatched with a callback URL the Callback          *)
(* Dispatcher is invoked exactly once when the job reaches a terminal      *)
(* status, on the fast path as on the background path, and never for a job *)
(* without a callback URL.                                                 *)
(***************************************************************************)
C9_CallbackOnEveryTerminal ==
    \A r \in Reqs :
        (Created(r) /\ pc[r] \in {"responded", "finished"})
        => callbacks[r] = (IF Truthy(req[r].callback_url) THEN 1 ELSE 0)

(***************************************************************************)
(* C9, amended.  For every job the background worker runs with a callback  *)
(* URL the Callback Dispatcher is invoked exactly once, after the worker   *)
(* has stored the terminal record; a job that completes synchronously on   *)
(* the fast path gets no callback, and no callback is ever made for a job  *)
(* without a callback URL.                                                 *)
(***************************************************************************)
C9_CallbackOncePerBackgroundJob ==
    \A r \in Reqs :
        /\ pc[r] = "finished"
           => callbacks[r] = (IF Truthy(req[r].callback_url) THEN 1 ELSE 0)
        /\ pc[r] # "finished" => callbacks[r] = 0

C9_Witness ==
    \E r \in Reqs :
        /\ pc[r] = "finished"
        /\ Truthy(req[r].callback_url)
        /\ callbacks[r] = 1
        /\ StoreGet(jobStore, job_id[r]).status \in Terminal

(***************************************************************************)
(* C10.  Dispatching, in agent mode, an intent that is not in the tool     *)
(* registry returns synchronously a not-found failure (HTTP 404), distinct *)
(* from the internal-error failure (HTTP 500) returned for any other       *)
(* executor fault.  (The request is one that reaches the executor: an      *)
(* idempotency hit returns the stored job instead.)                        *)
(***************************************************************************)
C10_UnregisteredIntentNotFound ==
    \A r \in Reqs :
        /\ ( /\ req[r].mode = "agent"
             /\ get_tool(req[r].intent) = NoneVal
             /\ Missed(r)
             /\ pc[r] # "sync_wait" )
           => /\ resp[r].http = 404
              /\ resp[r].error = "Intent not found"
              /\ pc[r] = "responded"
              /\ r \notin tasks
        /\ FastOutcome(r, "OrchestratorError")
           => /\ resp[r].http = 500
              /\ resp[r].error # "Intent not found"

C10_Witness ==
    \E r \in Reqs :
        /\ req[r].mode = "agent"
        /\ get_tool(req[r].intent) = NoneVal
        /\ outcomes[r] = <<"IntentNotFoundError">>
        /\ resp[r].http = 404

(***************************************************************************)
(* C11.  For the destructive intent ssh.exec in agent mode: when the       *)
(* inputs carry no truthy confirm_dangerous (absent, None, False, 0 or the *)
(* empty string), the registered tool is not invoked and the executor      *)
(* returns the non-error "not executed" result (dry_run) whose             *)
(* would_execute field equals the supplied inputs; when confirm_dangerous  *)
(* is set, the tool is invoked, once and with the supplied inputs, and the *)
(* executor ends with what the tool call ended with.                       *)
(***************************************************************************)
C11_ConfirmationGate ==
    (call.fn = "run_agent" /\ call.intent = <<"ssh", "exec">>)
    => LET confirmed ==
               \E i \in DOMAIN call.inputs :
                   /\ call.inputs[i].k = "confirm_dangerous"
                   /\ call.inputs[i].v \notin {"None", "False", "0", ""}
       IN  IF ~confirmed
           THEN /\ call.tool_calls = <<>>
                /\ call.outcome = Ok("dry_run")
                /\ call.would_execute = call.inputs
           ELSE /\ call.tool_calls
                     = << [tool |-> <<"ssh", "exec">>,
                           kwargs |-> call.inputs] >>
                /\ call.outcome
                     \in { Ok("tool_result"),
                           Raise("OrchestratorError",
                                 "Agent execution failed") }

C11_Witness ==
    /\ call.fn = "run_agent"
    /\ call.intent = <<"ssh", "exec">>
    /\ call.inputs = << [k |-> "command", v |-> "ls"],
                        [k |-> "confirm_dangerous", v |-> "False"] >>
    /\ call.outcome = Ok("dry_run")
    /\ call.tool_calls = <<>>
    /\ call.would_execute = call.inputs

(***************************************************************************)
(* C12.  The Mode Resolver applies its rules in order, first match wins:   *)
(* read-only suffix (.peek, .read) gives agent; namespace memory. gives    *)
(* agent; namespaces gmail., digest., workflow., fs. give flow; namespace  *)
(* ssh. gives agent; anything else gives flow.  It returns flow or agent   *)
(* for every intent, never auto or mcp.                                    *)
(***************************************************************************)
C12_ResolverPolicy ==
    call.fn = "auto_select_mode"
    => LET intent == call.intent
           n == Len(intent)
           suffix == n >= 2 /\ intent[n] \in {"peek", "read"}
           namespace == IF n >= 2 THEN intent[1] ELSE ""
       IN  /\ call.out \in {"flow", "agent"}
           /\ call.out
                = (IF suffix THEN "agent"
                   ELSE IF namespace = "memory" THEN "agent"
                   ELSE IF namespace \in {"gmail", "digest", "workflow", "fs"}
                   THEN "flow"
                   ELSE IF namespace = "ssh" THEN "agent"
                   ELSE "flow")
           /\ intent = <<"memory", "search">> => call.out = "agent"
           /\ intent = <<"gmail", "triage">> => call.out = "flow"
           /\ intent = <<"ssh", "exec", "peek">> => call.out = "agent"
           /\ intent = <<"unknown", "namespace", "op">> => call.out = "flow"
           /\ intent \in { <<"fs", "read">>, <<"gmail", "peek">> }
                => call.out = "agent"

C12_Witness ==
    /\ call.fn = "auto_select_mode"
    /\ call.intent = <<"gmail", "peek">>
    /\ call.out = "agent"

(***************************************************************************)
(* C14.  The derived idempotency key is a deterministic function of        *)
(* (intent, inputs): two requests with the same intent and the same set of *)
(* inputs entries get the same key, in whatever order their inputs maps    *)
(* list the entries, and two requests that differ in intent or in inputs   *)
(* get different keys.                                                     *)
(***************************************************************************)
C14_KeyDeterministic ==
    call.fn = "generate_idempotency_key"
    => LET entries(d) == { d[i] : i \in DOMAIN d }
           same == /\ call.intent1 = call.intent2
                   /\ entries(call.inputs1) = entries(call.inputs2)
       IN  same <=> (call.key1 = call.key2)

C14_Witness ==
    /\ call.fn = "generate_idempotency_key"
    /\ call.intent1 = call.intent2
    /\ call.inputs1 = << [k |-> "b", v |-> "1"], [k |-> "a", v |-> "0"] >>
    /\ call.inputs2 = << [k |-> "a", v |-> "0"], [k |-> "b", v |-> "1"] >>
    /\ call.key1 = call.key2

C16_JobIdsUnique ==
    [][ \A r \in Reqs :
          (~Created(r) /\ Created(r)')
          => /\ job_id'[r] \notin StoreIds(jobStore)
             /\ Len(jobStore') = Len(jobStore) + 1 ]_vars

(***************************************************************************)
(* C15.  Whenever the caller supplies an idempotency key, Dispatch uses    *)
(* exactly that string for the lookup and for the job record and echoes it *)
(* in the response; the derived fingerprint is used only when the request  *)
(* carries no key.  This holds for every supplied string value, the empty  *)
(* string included.                                                        *)
(***************************************************************************)
C15_SuppliedKeyVerbatim ==
    /\ [](\A r \in Reqs :
             pc[r] # "idle"
             => IF req[r].idempotency_key # NoneVal
                THEN /\ idem_key[r].text = req[r].idempotency_key
                     /\ resp[r].http = 200
                        => resp[r].idempotency_key.text
                             = req[r].idempotency_key
                ELSE idem_key[r]
                       = generate_idempotency_key(req[r].intent,
                                                  req[r].inputs))
    /\ [][ \A r \in Reqs :
             (~Created(r) /\ Created(r)' /\ req'[r].idempotency_key # NoneVal)
             => StoreGet(jobStore', job_id'[r]).idempotency_key.text
                  = req'[r].idempotency_key ]_vars

(***************************************************************************)
(* C17.  GetJob for an id that is not in the job store answers not-found   *)
(* (404), and GetJob never modifies the job store, whether the id is known *)
(* or not.                                                                 *)
(***************************************************************************)
C17_GetJobReadOnly ==
    [][ reply'.op = "GetJob"
        => /\ jobStore' = jobStore
           /\ reply'.job_id \notin StoreIds(jobStore)
              => (reply'.http = 404 /\ reply'.error = "Job not found")
           /\ reply'.job_id \in StoreIds(jobStore)
              => reply'.http # 404 ]_vars

C17_Witness ==
    /\ reply.op = "GetJob"
    /\ reply.http = 404
    /\ jobStore # <<>>
    /\ reply.job_id \notin StoreIds(jobStore)

(***************************************************************************)
(* C18.  IngestCallback rejects every payload that has no job id (the key  *)
(* absent, or its value null or empty) with a validation error (400) and   *)
(* leaves the job store unchanged in that case; a payload it accepts has a *)
(* job id.                                                                 *)
(***************************************************************************)
C18_IngestNeedsJobId ==
    [][ (reply'.op = "IngestCallback" /\ ingests' = ingests + 1)
        => IF reply'.job_id = NoJob
           THEN /\ reply'.http = 400
                /\ reply'.error = "Missing job_id in payload"
                /\ jobStore' = jobStore
           ELSE /\ reply'.http = 200
                /\ reply'.job_id \in StoreIds(jobStore') ]_vars

C18_Witness ==
    /\ reply.op = "IngestCallback"
    /\ reply.http = 400
    /\ reply.job_id = NoJob
    /\ ingests = 2
    /\ jobStore # <<>>

(***************************************************************************)
(* Windows of the rate limiter, told from the calls alone: the first       *)
(* window of a key begins with the first check made for the key, it lasts  *)
(* window_seconds, and the next window begins with the first check made    *)
(* for the key after it has expired.                                       *)
(***************************************************************************)
\* The checks made for the key of check i before check i.
EarlierChecks(i) == { j \in 1..(i - 1) : checks[j].key = checks[i].key }

\* The last check made for the key of check i before check i.
PreviousCheck(i) ==
    CHOOSE j \in EarlierChecks(i) : \A m \in EarlierChecks(i) : m <= j

\* The time at which the window check i falls into began.
RECURSIVE WindowStart(_)
WindowStart(i) ==
    IF EarlierChecks(i) = {} THEN checks[i].at
    ELSE LET start == WindowStart(PreviousCheck(i))
         IN  IF checks[i].at >= start + rate_env.window_seconds
             THEN checks[i].at
             ELSE start

\* The checks of the window of check i made before check i.
EarlierInWindow(i) ==
    { j \in EarlierChecks(i) : WindowStart(j) = WindowStart(i) }

\* Check i is the first one made for its key after a window of the key
\* has expired.
OpensNewWindow(i) ==
    /\ EarlierChecks(i) # {}
    /\ EarlierInWindow(i) = {}

\* After `limit` calls for a key within one window, every further call for
\* the key in that window is answered allowed = false, remaining = 0, and
\* at most `limit` calls for the key are allowed in the window.
BlocksWhenExceeded ==
    \A i \in 1..Len(checks) :
        /\ Cardinality(EarlierInWindow(i)) >= rate_env.limit
           => /\ checks[i].result.allowed = FALSE
              /\ checks[i].result.remaining = 0
        /\ Cardinality({ j \in EarlierInWindow(i) \cup {i} :
                           checks[j].result.allowed }) <= rate_env.limit

\* The first call for a key after its window has expired is allowed and
\* returns remaining = limit - 1.
ResetsAfterWindow ==
    \A i \in 1..Len(checks) :
        OpensNewWindow(i)
        => /\ checks[i].result.allowed = TRUE
           /\ checks[i].result.remaining = rate_env.limit - 1

DecrementsByOne ==
    \A i \in 1..Len(checks) :
        LET k == Cardinality(EarlierInWindow(i)) + 1
        IN  k <= rate_env.limit
            => /\ checks[i].result.allowed = TRUE
               /\ checks[i].result.remaining = rate_env.limit - k

C22_RunningAtStart ==
    [][\A r \in Reqs :
          (pc[r] = "bg_pending" /\ pc'[r] = "bg_exec")
          => /\ job_id[r] \in StoreIds(jobStore')
             /\ StoreGet(jobStore', job_id[r]).status = "running"]_vars

(***************************************************************************)
(* C23.  Every job that Dispatch records as queued eventually reaches      *)
(* succeeded or failed in the store, the executor returning or raising and *)
(* the background worker being scheduled fairly: for jobs sent to the      *)
(* background directly and for fast-path timeouts alike.                   *)
(***************************************************************************)
C23_QueuedReachesTerminal ==
    \A r \in Reqs :
        ( /\ pc[r] = "bg_pending"
          /\ resp[r].status = "queued" )
        ~> ( /\ job_id[r] \in StoreIds(jobStore)
             /\ StoreGet(jobStore, job_id[r]).status \in Terminal
             /\ pc[r] \in {"bg_callback", "finished"} )

C23_Witness ==
    \E r \in Reqs :
        /\ ~is_fast_intent(req[r])
        /\ outcomes[r] # << >>
        /\ resp[r].status = "queued"
        /\ pc[r] = "finished"
        /\ StoreGet(jobStore, job_id[r]).status \in Terminal
        /\ \E q \in Reqs :
              /\ FastOutcome(q, "timeout")
              /\ pc[q] \in {"bg_callback", "finished"}

\* The worker of request r takes the step in which its dispatch() call ends.
WorkerEnds(r) == pc[r] = "bg_exec" /\ pc'[r] # "bg_exec"

\* The messages of the exceptions of class kind that dispatch() can raise
\* for the request.
Messages(rq, kind) ==
    { o.val : o \in { x \in dispatch(rq.mode, rq.intent, rq.inputs) :
                        x.kind = kind } }

\* What ended the worker's dispatch() call.
WorkerOutcome(r) == outcomes[r][Len(outcomes[r])]

\* The worker's dispatch() call has ended.
WorkerDone(r) == pc[r] \in {"bg_callback", "finished"}

(***************************************************************************)
(* C24.  On the background path, when the executor signals that the intent *)
(* is not recognised, the job's status becomes failed with an error that   *)
(* carries the not-found message; the worker goes on to its callback step  *)
(* or ends (no exception escapes it), and the executor is not invoked      *)
(* again.                                                                  *)
(***************************************************************************)
C24_NotFoundFailsJob ==
    [][\A r \in Reqs :
          /\ (WorkerEnds(r) /\ WorkerOutcome(r)' = "IntentNotFoundError")
             => /\ job_id[r] \in StoreIds(jobStore')
                /\ StoreGet(jobStore', job_id[r]).status = "failed"
                /\ StoreGet(jobStore', job_id[r]).result = NoneVal
                /\ \E m \in Messages(req[r], "IntentNotFoundError") :
                      StoreGet(jobStore', job_id[r]).error
                          = "Intent not found: " \o m
                /\ pc'[r] = AfterWorker(req[r].callback_url)
                /\ starts'[r] = starts[r]
          /\ (WorkerDone(r) /\ WorkerOutcome(r) = "IntentNotFoundError")
             => /\ starts'[r] = starts[r]
                /\ outcomes'[r] = outcomes[r]
                /\ WorkerDone(r)']_vars

C24_Witness ==
    \E r \in Reqs :
        /\ pc[r] = "finished"
        /\ req[r].intent = <<"memory", "nosuch">>
        /\ outcomes[r] = << "IntentNotFoundError" >>
        /\ starts[r] = 1
        /\ callbacks[r] = 1
        /\ StoreGet(jobStore, job_id[r]).status = "failed"
        /\ StoreGet(jobStore, job_id[r]).error
              = "Intent not found: Intent not found. Available"

\* How often the worker of request r has called dispatch(): the calls made
\* for the request without the handler's fast-path call.
WorkerCalls(r) ==
    starts[r] - (IF is_fast_intent(req[r]) THEN 1 ELSE 0)

(***************************************************************************)
(* C25.  On the background path, any executor failure other than "intent   *)
(* not recognised" sets the job's status to failed with an error equal to  *)
(* the executor's message, verbatim, and the operation is never retried:   *)
(* the worker invokes the executor exactly once.                           *)
(***************************************************************************)
C25_FailureRecordedOnce ==
    /\ [](\A r \in Reqs :
             WorkerDone(r)
             => /\ WorkerCalls(r) = 1
                /\ Len(outcomes[r]) = starts[r])
    /\ [][\A r \in Reqs :
             ( /\ WorkerEnds(r)
               /\ WorkerOutcome(r)' \notin {"ok", "IntentNotFoundError"} )
             => /\ job_id[r] \in StoreIds(jobStore')
                /\ StoreGet(jobStore', job_id[r]).status = "failed"
                /\ StoreGet(jobStore', job_id[r]).result = NoneVal
                /\ StoreGet(jobStore', job_id[r]).error
                      \in Messages(req[r], WorkerOutcome(r)')
                /\ starts'[r] = starts[r]]_vars

C25_Witness ==
    \E r \in Reqs :
        /\ pc[r] = "finished"
        /\ ~is_fast_intent(req[r])
        /\ outcomes[r] = << "OrchestratorError" >>
        /\ starts[r] = 1
        /\ StoreGet(jobStore, job_id[r]).status = "failed"
        /\ StoreGet(jobStore, job_id[r]).error
              \in Messages(req[r], "OrchestratorError")

\* The resolver's rules for read-only and local intents (the two that come
\* first in auto_select_mode): suffix .peek or .read, namespace memory.
ResolverLocal(intent) ==
    \/ EndsWith(intent, "peek")
    \/ EndsWith(intent, "read")
    \/ StartsWith(intent, "memory")

\* Request r is admitted in this step and misses the idempotency lookup.
AdmittedOnMiss(r) ==
    /\ pc[r] = "idle"
    /\ pc'[r] \in {"sync_wait", "bg_pending"}

(***************************************************************************)
(* C26.  A request is attempted on the fast path exactly when its intent   *)
(* matches the resolver's read-only or local heuristics (suffix .peek or   *)
(* .read, or the memory. namespace) or the caller explicitly requested the *)
(* agent mode; every other request goes to the background path.            *)
(***************************************************************************)
C26_FastPathEligibility ==
    [][\A r \in Reqs :
          AdmittedOnMiss(r)
          => IF ResolverLocal(req'[r].intent) \/ req'[r].mode = "agent"
             THEN pc'[r] = "sync_wait" /\ starts'[r] = 1 /\ r \notin tasks'
             ELSE pc'[r] = "bg_pending" /\ starts'[r] = 0 /\ r \in tasks']_vars

\* The handler of request r takes the step in which its wait_for ends.
FastAttemptEnds(r) == pc[r] = "sync_wait" /\ pc'[r] # "sync_wait"

\* The fast-path attempt of request r ended in an executor failure.
FastFailed(r) ==
    /\ req[r] # NoReq
    /\ is_fast_intent(req[r])
    /\ Len(outcomes[r]) >= 1
    /\ outcomes[r][1] \notin {"ok", "timeout"}

(***************************************************************************)
(* C27.  On the fast path only a timeout falls back to the background      *)
(* path: any other executor failure is returned to the caller as an        *)
(* immediate error, no background task is scheduled for the request and    *)
(* the job store is left unchanged.                                        *)
(***************************************************************************)
C27_OnlyTimeoutFallsBack ==
    /\ [](\A r \in Reqs :
             /\ FastFailed(r)
                => /\ r \notin tasks
                   /\ pc[r] = "responded"
                   /\ resp[r].http \in {404, 500}
                   /\ starts[r] = 1
                   /\ outcomes[r] = << outcomes[r][1] >>
             /\ (r \in tasks /\ is_fast_intent(req[r]))
                => FastOutcome(r, "timeout"))
    /\ [][\A r \in Reqs :
             (FastAttemptEnds(r) /\ outcomes'[r][1] \notin {"ok", "timeout"})
             => /\ jobStore' = jobStore
                /\ tasks' = tasks
                /\ resp'[r].http \in {404, 500}
                /\ resp'[r].job_id = NoJob]_vars

C27_Witness ==
    \E r, q \in Reqs :
        /\ FastFailed(r)
        /\ resp[r].http = 500
        /\ job_id[r] \notin StoreIds(jobStore)
        /\ FastOutcome(q, "timeout")
        /\ q \in tasks

(***************************************************************************)
(* C28.  Single-writer discipline: once a job's record has been created in *)
(* the job store, the only component that ever writes the record is the    *)
(* one background task scheduled for that job id; at most one background   *)
(* task is scheduled per job id, and no other request handler or endpoint  *)
(* overwrites the record.                                                  *)
(***************************************************************************)
C28_SingleWriter ==
    /\ [](\A r, q \in tasks : job_id[r] = job_id[q] => r = q)
    /\ [][\A id \in StoreIds(jobStore) :
             StoreGet(jobStore', id) # StoreGet(jobStore, id)
             => \E r \in tasks :
                   /\ job_id[r] = id
                   /\ WorkerEnds(r)]_vars

(***************************************************************************)
(* C29.  Each call of dispatch invokes exactly one executor: with an       *)
(* explicit mode it is the executor of that mode (flow gives run_flow, mcp *)
(* gives run_mcp, agent gives run_agent) and the resolver is not           *)
(* consulted; with mode auto it is the executor the resolver selects for   *)
(* the intent.  No executor is invoked while the mode is still auto.       *)
(***************************************************************************)
C29_OneExecutorPerDispatch ==
    call.fn = "dispatch"
    => /\ Len(call.executor_calls) = 1
       /\ call.selected_mode \in {"flow", "mcp", "agent"}
       /\ call.executor_calls[1]
             = (CASE call.selected_mode = "flow" -> "run_flow"
                  [] call.selected_mode = "mcp" -> "run_mcp"
                  [] call.selected_mode = "agent" -> "run_agent")
       /\ IF call.mode = "auto"
          THEN /\ call.selected_mode = auto_select_mode(call.intent)
               /\ call.resolver_calls = << call.intent >>
          ELSE /\ call.selected_mode = call.mode
               /\ call.resolver_calls = << >>
       /\ call.outcome \in dispatch(call.mode, call.intent, call.inputs)

C29_Witness ==
    /\ call.fn = "dispatch"
    /\ call.mode = "mcp"
    /\ call.intent = <<"gmail", "triage">>
    /\ auto_select_mode(call.intent) = "flow"
    /\ call.executor_calls = << "run_mcp" >>
    /\ call.resolver_calls = << >>

(***************************************************************************)
(* C30.  The trace never influences control: two Dispatch requests that    *)
(* are equal except for their trace, issued against equal job store        *)
(* states, get the same idempotency key, the same hit-or-miss outcome, the *)
(* same fast-path or background decision, the same executor and the same   *)
(* response status.                                                        *)
(***************************************************************************)
C30_TraceNeverControls ==
    call.fn = "orchestrate"
    => /\ call.decision1.idempotency_key = call.decision2.idempotency_key
       /\ call.decision1.hit = call.decision2.hit
       /\ call.decision1.path = call.decision2.path
       /\ call.decision1.executors = call.decision2.executors
       /\ call.decision1.statuses = call.decision2.statuses

C30_Witness ==
    /\ call.fn = "orchestrate"
    /\ call.request1.trace = << >>
    /\ DictGet(call.request2.trace, "mode") = "agent"
    /\ call.request1.mode = "auto"
    /\ call.request1.idempotency_key = NoneVal
    /\ call.trace1 # call.trace2
    /\ call.store # << >>
    /\ call.decision1.hit
    /\ call.decision2.hit

(***************************************************************************)
(* C31.  The flow executor reports its failure causes as three             *)
(* distinguishable failure classes: a transport timeout as a timeout, a    *)
(* response that is not 2xx as an upstream error carrying the status and   *)
(* the body, and any other transport failure as an internal error; it      *)
(* never reports not-found, because an intent without a route of its own   *)
(* is sent to the catch-all endpoint.                                      *)
(***************************************************************************)
C31_FlowFailureClasses ==
    call.fn = "run_flow"
    => /\ call.outcome.kind \in {"ok", "OrchestratorError"}
       /\ call.outcome \in run_flow(call.intent, call.inputs)
       /\ call.event.kind = "timeout"
          => /\ call.outcome = Raise("OrchestratorError",
                                     "Flow execution timed out")
             /\ call.message = "Flow execution timed out: " \o call.event.text
       /\ call.event.kind = "status"
          => /\ call.outcome = Raise("OrchestratorError",
                                     "Flow returned error")
             /\ call.message = "Flow returned error " \o call.event.status
                                  \o ": " \o call.event.body
       /\ call.event.kind = "transport"
          => /\ call.outcome = Raise("OrchestratorError",
                                     "Flow execution failed")
             /\ call.message = "Flow execution failed: " \o call.event.text
       /\ (\A route \in intent_routes : route.intent # call.intent)
          => call.webhook_url = "orchestrate"

C31_Witness ==
    /\ call.fn = "run_flow"
    /\ call.intent = <<"no", "such", "tool">>
    /\ call.webhook_url = "orchestrate"
    /\ call.event.kind = "status"
    /\ call.event.status = "404"
    /\ call.outcome.kind = "OrchestratorError"
    /\ call.message = "Flow returned error 404: no such webhook"

\* How often dispatch(), and with it the executor, was started for a job id:
\* by the fast-path attempt of the handler that generated the id and by the
\* background task that carries it.
RECURSIVE SumStarts(_)
SumStarts(rs) ==
    IF rs = {} THEN 0
    ELSE LET r == CHOOSE x \in rs : TRUE
         IN  starts[r] + SumStarts(rs \ {r})

ExecutorStarts(id) == SumStarts({ r \in Reqs : job_id[r] = id })

(***************************************************************************)
(* C32.  For every job id the executor is started at most once over the    *)
(* job's whole life: a request whose fast-path attempt timed out and fell  *)
(* back to the background path with the same job id does not cause a       *)
(* second start of the executor for that job.                              *)
(***************************************************************************)
C32_ExecutorStartedOnce ==
    \A id \in JobIds : ExecutorStarts(id) <= 1

\* GetJob on the job id of request r reports what the worker's payload says.
ReportsPayload(r) ==
    LET got == GetJobResponse(jobStore, job_id[r])
    IN  /\ got.http = 200
        /\ got.status \in Terminal
        /\ got.status = worker_payload[r].status
        /\ got.result = worker_payload[r].result
        /\ got.error = worker_payload[r].error

(***************************************************************************)
(* C33.  The background worker writes the job's terminal record to the     *)
(* job store before it sends the callback, and the callback payload equals *)
(* that record: any GetJob issued after the callback for job J was         *)
(* received reports J as terminal with the same status, result and error   *)
(* as the callback payload, absent a later IngestCallback for J.           *)
(***************************************************************************)
C33_StoredBeforeCallback ==
    /\ [](\A r \in Reqs :
             (WorkerDone(r) /\ ingests = 0) => ReportsPayload(r))
    /\ [][\A r \in Reqs :
             /\ WorkerEnds(r) => (callbacks'[r] = 0 /\ ReportsPayload(r)')
             /\ ( /\ WorkerDone(r)
                  /\ StoreGet(jobStore', job_id[r])
                        # StoreGet(jobStore, job_id[r]) )
                => /\ reply'.op = "IngestCallback"
                   /\ reply'.job_id = job_id[r]]_vars

\* How often a callback POST was attempted for a job id.
RECURSIVE SumCallbacks(_)
SumCallbacks(rs) ==
    IF rs = {} THEN 0
    ELSE LET r == CHOOSE x \in rs : TRUE
         IN  callbacks[r] + SumCallbacks(rs \ {r})

CallbackAttempts(id) == SumCallbacks({ r \in Reqs : job_id[r] = id })

(***************************************************************************)
(* C34.  The will_callback flag is truthful: whenever Dispatch creates a   *)
(* job and answers will_callback = true, a callback delivery attempt for   *)
(* that job id is eventually made; whenever it creates a job and answers   *)
(* will_callback = false, no callback attempt is ever made for that job    *)
(* id.                                                                     *)
(***************************************************************************)
C34_WillCallbackTruthful ==
    /\ [](\A r \in Reqs :
             (Created(r) /\ ~resp[r].will_callback)
             => CallbackAttempts(job_id[r]) = 0)
    /\ \A r \in Reqs :
          (Created(r) /\ resp[r].will_callback)
          ~> (CallbackAttempts(job_id[r]) >= 1)

(***************************************************************************)
(* C35.  Every record in the job store can be read back: for every job id  *)
(* present in the job store, whichever operation wrote the record          *)
(* (Dispatch, the background worker or IngestCallback), GetJob returns a   *)
(* well-formed job response with that id and status, and an idempotency    *)
(* lookup that scans the record does not fault.                            *)
(***************************************************************************)
C35_RecordsReadable ==
    \A id \in StoreIds(jobStore) :
        LET got == GetJobResponse(jobStore, id)
        IN  /\ got.http = 200
            /\ got.job_id = id
            /\ got.status = StoreGet(jobStore, id).status
            /\ got.status \in {"queued", "running", "succeeded", "failed"}
            /\ \A rq \in Requests :
                  LookupIndex(jobStore, IdemKeyOf(rq)) \in 0..Len(jobStore)

(***************************************************************************)
(* C36.  The confirmation gate covers the destructive action, not just one *)
(* intent name: under every intent name that the tool registry maps to the *)
(* ssh_exec callable (ssh.exec and ssh.run), the agent executor does not   *)
(* invoke ssh_exec unless the inputs carry the confirmation flag.          *)
(***************************************************************************)
C36_GateCoversCallable ==
    ( /\ call.fn = "run_agent"
      /\ \E i \in 1..Len(call.tool_calls) :
            registered_callable(call.tool_calls[i].tool) = "ssh.ssh_exec" )
    => TruthyValue(DictGet(call.inputs, "confirm_dangerous"))


\* The calls the Redis path answered allowed = true with reset time rt:
\* the allowed calls of one window of one key.
AllowedInWindow(key, rt) ==
    { i \in 1..Len(checks) :
        /\ checks[i].via = "redis"
        /\ checks[i].key = key
        /\ checks[i].result.allowed
        /\ checks[i].result.reset_time = rt }

C38_AuthTwoOutcomes ==
    (call.fn = "orchestrate_auth" /\ call.entered) =>
        IF call.credentials = API_KEY
        THEN call.out = Returns("idempotency lookup")
        ELSE call.out.kind = "HTTPException" /\ call.out.http = 401
====
